---- MODULE Spec2Model ----
(***************************************************************************)
(* A model of the StudyChat component (src/src/components/StudyChat.tsx):  *)
(* the chat send pipeline, the session-analysis accumulator, the quiz      *)
(* walk and the quiz scoring; and of the school-student-approval function  *)
(* (src/supabase/functions/school-student-approval/index.ts); and of the   *)
(* ChatHistory view (src/src/components/ChatHistory.tsx).                  *)
(*                                                                         *)
(* Strings are sequences of one-character strings, so that toLowerCase,    *)
(* trim and indexOf are computed rather than assumed.  Numbers of type     *)
(* "number" that go through a division are IEEE-754 doubles: the accuracy  *)
(* is computed on a 53-bit significand held in three 18-bit limbs.         *)
(***************************************************************************)
EXTENDS Integers, Sequences, FiniteSets, TLC

VARIABLES
    messages,              \* ChatMessage[]                      (line 63)
    isLoading,             \* a send is in flight                (line 72)
    isQuizMode,            \*                                    (line 80)
    quizQuestions,         \* QuizQuestion[]                     (line 81)
    currentQuestionIndex,  \* 0-based, as in the source          (line 82)
    userAnswers,           \* string[]                           (line 83)
    showResult,            \*                                    (line 84)
    quizLoading,           \*                                    (line 85)
    selectedOption,        \* string | null                      (line 86)
    showExplanation,       \*                                    (line 87)
    analysis,              \* RealTimeAnalysis                   (line 90)
    studentId,             \* the prop, absent or present               (line 58)
    sessionId,             \* string | null                             (line 224)
    send,                  \* the pending handleSendMessage: where it waits, and its local sessId
    endClick,              \* the pending handleEndStudyClick: the state its closure captured
    endTimer,              \* the pending setTimeout of calculateQuizResults: its summary
    endStudyCalls,         \* the summaries onEndStudy was called with, in order
    sends,                 \* number of accepted sends so far
    answerLog,             \* history: each handleQuizAnswer call, [index, answer]
    lastGen,               \* history: what the latest generate-quiz request resolved with
    lastTurn,              \* history: the analysis before the latest assistant turn, and what it reported
    call,                  \* an isolated call of calculateQuizResults: inputs and result
    students,              \* the rows of table students, by id
    reqs,                  \* the invocations of the approval handler, by instance
    envConfigured,         \* SUPABASE_URL and SUPABASE_SERVICE_ROLE_KEY are set
    sessions,              \* ChatHistory: Session[]                     (ChatHistory.tsx line 29)
    selectedSession,       \* ChatHistory: Session | null                (line 30)
    historyMessages,       \* ChatHistory: messages, ChatMessage[]       (line 31)
    loading,               \* ChatHistory                                (line 32)
    loadingMessages,       \* ChatHistory                                (line 33)
    loads,                 \* ChatHistory: the chat_messages queries not answered yet, by session
    now,                   \* the reading of the millisecond clock, Date.now()
    messageIds,            \* the id of each message of messages, in order      (lines 17, 66, 271, 300, 359, 423)
    messageReactions,      \* Record<id, Record<ReactionType, MessageReaction>>  (line 98)
    backend                \* history: the rows the instance inserted and the study-chat requests it issued, in order

vars == <<messages, isLoading, isQuizMode, quizQuestions, currentQuestionIndex,
          userAnswers, showResult, quizLoading, selectedOption, showExplanation,
          analysis, studentId, sessionId, send, endClick, endTimer,
          endStudyCalls, sends, answerLog, lastGen, lastTurn, call,
          students, reqs, envConfigured,
          sessions, selectedSession, historyMessages, loading, loadingMessages, loads,
          now, messageIds, messageReactions, backend>>

approvalVars == <<students, reqs, envConfigured>>

historyVars == <<sessions, selectedSession, historyMessages, loading,
                 loadingMessages, loads>>

\* The state of the views a StudyChat handler and the approval handler
\* never write.
viewVars == <<historyVars, now, messageReactions>>

sendVars == <<isLoading, studentId, sessionId, send, sends>>
walkVars == <<quizQuestions, currentQuestionIndex, userAnswers, showResult,
              selectedOption, showExplanation, answerLog>>
endVars  == <<quizLoading, endClick, endTimer, endStudyCalls, lastGen>>

(***************************************************************************)
(* Bounds of the model.                                                    *)
(***************************************************************************)
MaxQuestions == 2     \* longest generated quiz
MaxOptions == 2       \* longest options array of an isolated scoring call
MaxTotal == 67        \* longest quiz of an isolated accuracy call
MaxSends == 2         \* accepted sends per component instance
MaxEndStudy == 2      \* End Study clicks per component instance
MaxTicks == 2         \* milliseconds the clock advances

\* An optional value (T | null, T | undefined, an optional field) is a
\* sequence of at most one element.
Nothing == <<>>
Some(v) == <<v>>

(***************************************************************************)
(* Strings.                                                                *)
(***************************************************************************)
ToLowerChar(ch) ==
    CASE ch = "A" -> "a"
      [] ch = "B" -> "b"
      [] ch = "T" -> "t"
      [] ch = "F" -> "f"
      [] OTHER -> ch

\* String.prototype.toLowerCase
ToLowerCase(s) == [i \in 1..Len(s) |-> ToLowerChar(s[i])]

IsSpace(ch) == ch = " "

RECURSIVE TrimStart(_)
TrimStart(s) ==
    IF s # <<>> /\ IsSpace(Head(s)) THEN TrimStart(Tail(s)) ELSE s

RECURSIVE TrimEnd(_)
TrimEnd(s) ==
    IF s # <<>> /\ IsSpace(s[Len(s)]) THEN TrimEnd(SubSeq(s, 1, Len(s) - 1)) ELSE s

\* String.prototype.trim
Trim(s) == TrimEnd(TrimStart(s))

\* Array.prototype.indexOf: the 0-based index of the first element
\* strictly equal to x, or -1.
RECURSIVE IndexFrom(_, _, _)
IndexFrom(arr, x, i) ==
    IF i > Len(arr) THEN -1
    ELSE IF arr[i] = x THEN i - 1
    ELSE IndexFrom(arr, x, i + 1)

IndexOf(arr, x) == IndexFrom(arr, x, 1)

\* arr.map(o => o.toLowerCase())
MapToLowerCase(arr) == [i \in 1..Len(arr) |-> ToLowerCase(arr[i])]

(***************************************************************************)
(* Math.round((correctCount / quizQuestions.length) * 100), lines 412 and  *)
(* 450, on IEEE-754 doubles.  A positive double is held as a significand   *)
(* a*2^36 + b*2^18 + c (53 bits in three limbs) and n, its value being     *)
(* significand / 2^n.  Division and multiplication round to nearest, ties  *)
(* to even; Math.round rounds to the nearest integer, ties upward.         *)
(***************************************************************************)
RECURSIVE Pow2(_)
Pow2(n) == IF n = 0 THEN 1 ELSE 2 * Pow2(n - 1)

Limb == Pow2(18)

\* The k with t <= c * 2^k < 2t, for 0 < c <= t.
RECURSIVE NormShift(_, _)
NormShift(c, t) == IF c >= t THEN 0 ELSE 1 + NormShift(2 * c, t)

\* The significand a,b,c, plus one when the rounding goes up, carries propagated.
Carry3(a, b, c, up) ==
    LET c1 == c + (IF up THEN 1 ELSE 0)
        b1 == b + (c1 \div Limb)
    IN  [a |-> a + (b1 \div Limb), b |-> b1 % Limb, c |-> c1 % Limb]

\* The double c / t, for integers 0 < c <= t: 53 quotient bits by long
\* division, rounded on the remainder.
DoubleDiv(c, t) ==
    LET k  == NormShift(c, t)
        n0 == c * Pow2(k)
        a  == (n0 * Pow2(16)) \div t
        ra == (n0 * Pow2(16)) % t
        b  == (ra * Limb) \div t
        rb == (ra * Limb) % t
        d  == (rb * Limb) \div t
        rd == (rb * Limb) % t
        up == (2 * rd > t) \/ (2 * rd = t /\ d % 2 = 1)
        m  == Carry3(a, b, d, up)
    IN  [a |-> m.a, b |-> m.b, c |-> m.c, n |-> 52 + k]

\* The double x * 100: the exact 59- or 60-bit product, rounded back to 53 bits.
DoubleTimes100(x) ==
    LET p0f == x.c * 100
        p0  == p0f % Limb
        p1f == x.b * 100 + (p0f \div Limb)
        p1  == p1f % Limb
        p2  == x.a * 100 + (p1f \div Limb)
        s   == IF p2 >= Pow2(23) THEN 7 ELSE 6
        low == p0 % Pow2(s)
        c1  == (p0 \div Pow2(s)) + (p1 % Pow2(s)) * Pow2(18 - s)
        b1  == (p1 \div Pow2(s)) + (p2 % Pow2(s)) * Pow2(18 - s)
        a1  == p2 \div Pow2(s)
        up  == (low > Pow2(s - 1)) \/ (low = Pow2(s - 1) /\ c1 % 2 = 1)
        m   == Carry3(a1, b1, c1, up)
    IN  [a |-> m.a, b |-> m.b, c |-> m.c, n |-> x.n - s]

\* Math.round of a positive double below 2^17: its integer part, plus one
\* when the fraction is at least one half.
MathRound(x) ==
    LET whole == IF x.n - 36 <= 17 THEN x.a \div Pow2(x.n - 36) ELSE 0
        half  == IF x.n - 37 <= 17 THEN (x.a \div Pow2(x.n - 37)) % 2 ELSE 0
    IN  whole + half

\* Math.round((correct / total) * 100), for 0 <= correct <= total, total >= 1.
Accuracy(correct, total) ==
    IF correct = 0 THEN 0
    ELSE MathRound(DoubleTimes100(DoubleDiv(correct, total)))

(***************************************************************************)
(* Quiz scoring: calculateQuizResults, lines 401-417, and getResultMessage.*)
(* A QuizQuestion is [type, hasOptions, options, correct_answer]; the      *)
(* optional field "options" is absent when hasOptions is FALSE.            *)
(***************************************************************************)
QuestionTypes == {"mcq", "true_false", "fill_blank", "short_answer"}

\* A variant of lines 404-405 that forgets .trim() on the learner's answer.
IsCorrectNoTrim(q, answers, i) ==
    LET defined       == i <= Len(answers)
        correctAnswer == Trim(ToLowerCase(q.correct_answer))
        answerIndex   == IF defined THEN IndexOf(q.options, answers[i]) ELSE -1
    IN  \/ defined /\ ToLowerCase(answers[i]) = correctAnswer
        \/ q.hasOptions
           /\ answerIndex = IndexOf(MapToLowerCase(q.options), correctAnswer)

\* A variant of lines 404-405 that forgets .toLowerCase() on the learner's
\* answer.
IsCorrectRawCase(q, answers, i) ==
    LET defined       == i <= Len(answers)
        correctAnswer == Trim(ToLowerCase(q.correct_answer))
        answerIndex   == IF defined THEN IndexOf(q.options, answers[i]) ELSE -1
    IN  \/ defined /\ Trim(answers[i]) = correctAnswer
        \/ q.hasOptions
           /\ answerIndex = IndexOf(MapToLowerCase(q.options), correctAnswer)

\* Lines 404-407 for question q at (1-based) position i: userAnswers[i] is
\* undefined past the end of the answers.
IsCorrect(q, answers, i) ==
    LET defined       == i <= Len(answers)
        correctAnswer == Trim(ToLowerCase(q.correct_answer))
        answerIndex   == IF defined THEN IndexOf(q.options, answers[i]) ELSE -1
    IN  \/ defined /\ Trim(ToLowerCase(answers[i])) = correctAnswer
        \/ q.hasOptions
           /\ answerIndex = IndexOf(MapToLowerCase(q.options), correctAnswer)

\* The forEach of lines 403-410.
RECURSIVE CountFrom(_, _, _)
CountFrom(questions, answers, i) ==
    IF i > Len(questions) THEN 0
    ELSE (IF IsCorrect(questions[i], answers, i) THEN 1 ELSE 0)
         + CountFrom(questions, answers, i + 1)

CountCorrect(questions, answers) == CountFrom(questions, answers, 1)

\* A variant of lines 413-417 with strict comparisons.
UnderstandingStrict(accuracy) ==
    IF accuracy > 70 THEN "strong"
    ELSE IF accuracy > 40 THEN "partial"
    ELSE "weak"

\* Lines 413-417.
Understanding(accuracy) ==
    IF accuracy >= 70 THEN "strong"
    ELSE IF accuracy >= 40 THEN "partial"
    ELSE "weak"

\* getResultMessage, lines 449-459: which of the three texts is chosen, and
\* the numbers it shows: correct, total and the percentage.
getResultMessage(correct, total, understanding) ==
    [text |-> <<"result",
                IF understanding = "strong" THEN "strong"
                ELSE IF understanding = "partial" THEN "partial"
                ELSE "weak">>,
     nums |-> <<correct, total, Accuracy(correct, total)>>]

\* The quizResult of lines 437-444.
QuizResult(questions, answers) ==
    LET correctCount == CountCorrect(questions, answers)
        accuracy     == Accuracy(correctCount, Len(questions))
    IN  [correctCount   |-> correctCount,
         totalQuestions |-> Len(questions),
         accuracy       |-> accuracy,
         understanding  |-> Understanding(accuracy),
         questions      |-> questions,
         answers        |-> answers]

(***************************************************************************)
(* Messages.  A message's content is its text (the characters of a typed   *)
(* text, or one token naming a fixed text) and the numbers the text shows. *)
(***************************************************************************)
Message(role, text, nums, imageUrl) ==
    [role |-> role, content |-> [text |-> text, nums |-> nums], imageUrl |-> imageUrl]

Greeting == Message("assistant", <<"greeting">>, <<>>, Nothing)

\* Ids are the numbers whose decimal strings the source stores: the
\* greeting has "1" (line 66), the others Date.now() or Date.now() + 1.
GreetingId == 1

\* What the instance does to the backend: a row inserted in study_sessions
\* (acknowledged when the insert was answered with the row), a row inserted
\* in chat_messages, and a study-chat request issued; send numbers the send.
SessionRow(id, acknowledged) ==
    [kind |-> "session", session_id |-> Some(id), role |-> "", send |-> 0,
     acknowledged |-> acknowledged]
MessageRow(session_id, role, k) ==
    [kind |-> "message", session_id |-> session_id, role |-> role, send |-> k,
     acknowledged |-> TRUE]
AiRequest(k) ==
    [kind |-> "ai", session_id |-> Nothing, role |-> "", send |-> k,
     acknowledged |-> TRUE]

\* The result message of lines 422-427.
ResultMessage(questions, answers) ==
    LET r == QuizResult(questions, answers)
        c == getResultMessage(r.correctCount, Len(questions), r.understanding)
    IN  Message("assistant", c.text, c.nums, Nothing)

\* The quiz intro of lines 357-362; it shows the number of questions.
QuizIntro(questions) == Message("assistant", <<"quizIntro">>, <<Len(questions)>>, Nothing)

\* JavaScript truthiness of an optional string: present and not empty.  A
\* text is a sequence of characters, a name (an enumerated string) is atomic.
Truthy(opt) == opt # Nothing /\ opt[1] # <<>>
\* A variant of line 211 with ?? in place of ||.
PresentName(opt) == opt # Nothing

TruthyName(opt) == opt # Nothing /\ opt[1] # ""

Range(seq) == {seq[i] : i \in 1..Len(seq)}

(***************************************************************************)
(* The session-analysis accumulator, lines 207-214.                        *)
(***************************************************************************)
\* A variant of lines 209-212 without the Set: the concatenation as it is.
KeepAll(arr) == arr

\* [...new Set(arr)]: the elements in order of first occurrence.
RECURSIVE Dedupe(_)
Dedupe(arr) ==
    IF arr = <<>> THEN <<>>
    ELSE LET front == Dedupe(SubSeq(arr, 1, Len(arr) - 1))
             last  == arr[Len(arr)]
         IN  IF last \in Range(front) THEN front ELSE Append(front, last)

\* list || []
OrEmpty(opt) == IF opt = Nothing THEN <<>> ELSE opt[1]

\* The updater of lines 208-213, for a reported sessionAnalysis sa.
MergeAnalysis(prev, sa) ==
    [weakAreas   |-> Dedupe(prev.weakAreas \o OrEmpty(sa.weakAreas)),
     strongAreas |-> Dedupe(prev.strongAreas \o OrEmpty(sa.strongAreas)),
     currentUnderstanding |->
         IF TruthyName(sa.understanding) THEN sa.understanding[1]
         ELSE prev.currentUnderstanding,
     topicsCovered |-> Dedupe(prev.topicsCovered \o OrEmpty(sa.topics))]

\* What the study-chat function may answer: the reported analyses ...
Reports ==
    { [weakAreas |-> Some(<<"w1">>), strongAreas |-> Nothing,
       topics |-> Some(<<"t1", "t1">>), understanding |-> Some("good")],
      [weakAreas |-> Some(<<"w2", "w1">>), strongAreas |-> Some(<<"s1">>),
       topics |-> Some(<<>>), understanding |-> Nothing],
      [weakAreas |-> Nothing, strongAreas |-> Some(<<"s1", "s2">>),
       topics |-> Some(<<"t2">>), understanding |-> Some("")],
      [weakAreas |-> Nothing, strongAreas |-> Nothing,
       topics |-> Nothing, understanding |-> Some("expert")] }

\* ... and the whole outcome of the invoke of line 190: an error, or data
\* with an optional sessionAnalysis and an optional response text.
AiOutcomes ==
    [error : {TRUE}, sessionAnalysis : {Nothing}, response : {Nothing}]
    \cup [error : {FALSE},
          sessionAnalysis : {Nothing} \cup {Some(r) : r \in Reports},
          response : {Nothing, Some(<<>>), Some(<<"reply">>)}]

\* getAIResponse, lines 182-221: the analysis it leaves and the text it returns.
getAIResponse(prev, outcome) ==
    IF outcome.error
    THEN [analysis |-> prev, text |-> <<"oops">>]
    ELSE [analysis |-> IF outcome.sessionAnalysis # Nothing
                       THEN MergeAnalysis(prev, outcome.sessionAnalysis[1])
                       ELSE prev,
          text |-> IF Truthy(outcome.response) THEN outcome.response[1]
                   ELSE <<"sorry">>]

(***************************************************************************)
(* The backend of school-student-approval: the tables schools and students *)
(* as the handler reads and writes them, and the handler's instances.      *)
(***************************************************************************)
\* Table schools: id is what students.school_id refers to; school_id and
\* password_hash are what line 48-49 compare with the request.  The last
\* two rows hold the same credentials.
Schools ==
    { [id |-> "A", school_id |-> "sa", password_hash |-> "pa"],
      [id |-> "B", school_id |-> "sb", password_hash |-> "pb"],
      [id |-> "C", school_id |-> "sc", password_hash |-> "pc"],
      [id |-> "D", school_id |-> "sc", password_hash |-> "pc"] }

\* Table students, columns school_id, is_approved, rejection_reason and
\* approved_at: one student of school A and one of school B, not decided on.
NewStudent(school) ==
    [school_id |-> school, is_approved |-> FALSE, rejection_reason |-> Nothing,
     approved_at |-> Nothing]

InitialStudents == [s \in {"s1", "s2"} |-> NewStudent(IF s = "s1" THEN "A" ELSE "B")]

\* The instances of the handler that may run at once.
Handlers == {"h1", "h2"}

\* An instance that serves no request.  Of a request it holds the request,
\* the school row once found and the Response once made; wrote and failure
\* are history: its update was applied, and which backend call gave an error.
Idle == [pc |-> "idle", request |-> Nothing, school |-> Nothing,
         response |-> Nothing, wrote |-> FALSE, failure |-> Nothing]

ApprovalIdle ==
    /\ students = InitialStudents
    /\ reqs = [h \in Handlers |-> Idle]
    /\ envConfigured = TRUE

\* The sessions a student may have, and table chat_messages as ChatHistory
\* reads it: two rows of one session, one of another, none of the third.
Sessions == {"x", "y", "z"}

ChatMessages(session) ==
    IF session = "x" THEN << [id |-> "m1", session_id |-> "x", role |-> "user"],
                             [id |-> "m2", session_id |-> "x", role |-> "assistant"] >>
    ELSE IF session = "y" THEN << [id |-> "m3", session_id |-> "y", role |-> "user"] >>
    ELSE <<>>

\* ChatHistory.tsx lines 29-37: the state after construction and the effect
\* that calls loadSessions.
HistoryMounted ==
    /\ sessions = {}
    /\ selectedSession = Nothing
    /\ historyMessages = <<>>
    /\ loading = TRUE
    /\ loadingMessages = FALSE
    /\ loads = [s \in Sessions |-> 0]

\* Line 98: no message has reactions.
NoReactions == [id \in {} |-> {}]

\* A reading of the clock when the component is constructed; Date.now()
\* is far above the id of the greeting.
FirstReading == 100

ViewsIdle == HistoryMounted /\ now = FirstReading /\ messageReactions = NoReactions

(***************************************************************************)
(* The component's state after construction, lines 63-98 and 224.          *)
(***************************************************************************)
InitState ==
    /\ messages = <<Greeting>>
    /\ isLoading = FALSE
    /\ isQuizMode = FALSE
    /\ quizQuestions = <<>>
    /\ currentQuestionIndex = 0
    /\ userAnswers = <<>>
    /\ showResult = FALSE
    /\ quizLoading = FALSE
    /\ selectedOption = Nothing
    /\ showExplanation = FALSE
    /\ analysis = [weakAreas |-> <<>>, strongAreas |-> <<>>,
                   currentUnderstanding |-> "average", topicsCovered |-> <<>>]
    /\ sessionId = Nothing
    /\ send = [pc |-> "idle", sessId |-> Nothing]
    /\ endClick = Nothing
    /\ endTimer = Nothing
    /\ endStudyCalls = <<>>
    /\ sends = 0
    /\ answerLog = <<>>
    /\ lastGen = Nothing
    /\ lastTurn = Nothing
    /\ messageIds = <<GreetingId>>
    /\ backend = <<>>

Init ==
    /\ ApprovalIdle /\ ViewsIdle
    /\ InitState
    /\ studentId \in {Nothing, Some("student")}
    /\ call = Nothing

(***************************************************************************)
(* handleSendMessage, lines 267-313, with ensureSession, saveMessageToDb   *)
(* and getAIResponse.  Each await of a backend request is a step.          *)
(***************************************************************************)
InputTexts == {<<" ">>, <<"h">>}
Images == {Nothing, Some("image")}

\* A variant of lines 851 and 856 whose controls stay enabled during a send.
CanSendWhileLoading(text, image) ==
    /\ ~isQuizMode
    /\ ~(Trim(text) = <<>> /\ image = Nothing)

\* Line 268, and the controls of lines 827-864: the input area is rendered
\* outside quiz mode only, and is disabled while a send is in flight.
CanSend(text, image) ==
    /\ ~isQuizMode
    /\ ~isLoading
    /\ ~(Trim(text) = <<>> /\ image = Nothing)

\* Lines 270-291: the user message is appended, and ensureSession either
\* returns at once (a session id is known, or there is no studentId) or
\* awaits the insert of a study_sessions row.
handleSendMessage(text, image) ==
    /\ CanSend(text, image)
    /\ sends < MaxSends
    /\ messages' = Append(messages, Message("user", text, <<>>, image))
    /\ isLoading' = TRUE
    /\ sends' = sends + 1
    /\ messageIds' = Append(messageIds, now)
    /\ send' = IF sessionId # Nothing THEN [pc |-> "saveUser", sessId |-> sessionId]
               ELSE IF studentId = Nothing THEN [pc |-> "ai", sessId |-> Nothing]
               ELSE [pc |-> "session", sessId |-> Nothing]
    /\ backend' = IF sessionId = Nothing /\ studentId = Nothing
                  THEN Append(backend, AiRequest(sends + 1))
                  ELSE backend
    /\ UNCHANGED <<studentId, sessionId, analysis, lastTurn, isQuizMode, walkVars,
                   endVars, call, approvalVars, viewVars>>

\* How an insert may end: the row is stored and returned, the insert is
\* refused, or the row is stored and the answer lost on the way back.
InsertOutcomes == {"ok", "error", "lost"}

\* The id the database gives a new study_sessions row.
NewSessionId ==
    1 + Cardinality({i \in 1..Len(backend) : backend[i].kind = "session"})

\* A variant of lines 258-260 that returns the id without setSessionId.
SessionInsertedNotKept(outcome) ==
    /\ send.pc = "session"
    /\ sessionId' = sessionId
    /\ IF outcome = "ok"
       THEN /\ send' = [pc |-> "saveUser", sessId |-> Some(NewSessionId)]
            /\ backend' = Append(backend, SessionRow(NewSessionId, TRUE))
       ELSE /\ send' = [pc |-> "ai", sessId |-> Nothing]
            /\ backend' = (IF outcome = "lost"
                           THEN Append(backend, SessionRow(NewSessionId, FALSE))
                           ELSE backend) \o <<AiRequest(sends)>>
    /\ UNCHANGED <<messages, isLoading, studentId, sends, analysis, lastTurn,
                   isQuizMode, walkVars, endVars, call, approvalVars, viewVars,
                   messageIds>>

\* Lines 247-264: the insert resolves, with a row id or with an error; with
\* an id the insert of the user message follows, without one the study-chat
\* request.
SessionInserted(outcome) ==
    /\ send.pc = "session"
    /\ IF outcome = "ok"
       THEN /\ sessionId' = Some(NewSessionId)
            /\ send' = [pc |-> "saveUser", sessId |-> Some(NewSessionId)]
            /\ backend' = Append(backend, SessionRow(NewSessionId, TRUE))
       ELSE /\ sessionId' = sessionId
            /\ send' = [pc |-> "ai", sessId |-> Nothing]
            /\ backend' = (IF outcome = "lost"
                           THEN Append(backend, SessionRow(NewSessionId, FALSE))
                           ELSE backend) \o <<AiRequest(sends)>>
    /\ UNCHANGED <<messages, isLoading, studentId, sends, analysis, lastTurn,
                   isQuizMode, walkVars, endVars, call, approvalVars, viewVars, messageIds>>

\* Lines 229-237 and 292-296: the insert of the user message resolves, the
\* row stored or not (saveMessageToDb does not look at the answer), and the
\* study-chat request is issued.
UserMessageSaved(inserted) ==
    /\ send.pc = "saveUser"
    /\ send' = [send EXCEPT !.pc = "ai"]
    /\ backend' = (IF inserted
                   THEN Append(backend, MessageRow(send.sessId, "user", sends))
                   ELSE backend) \o <<AiRequest(sends)>>
    /\ UNCHANGED <<messages, isLoading, studentId, sessionId, sends, analysis,
                   lastTurn, isQuizMode, walkVars, endVars, call, approvalVars, viewVars, messageIds>>

\* A variant of getAIResponse without its catch: the exception leaves
\* handleSendMessage before the reply is appended and before line 312.
AiResolvedUncaught(outcome) ==
    /\ send.pc = "ai"
    /\ lastTurn' = Some([before |-> analysis, reported |-> outcome.sessionAnalysis,
                         failed |-> outcome.error])
    /\ IF outcome.error
       THEN /\ send' = [pc |-> "idle", sessId |-> Nothing]
            /\ UNCHANGED <<analysis, messages, messageIds, isLoading>>
       ELSE /\ LET r == getAIResponse(analysis, outcome)
               IN  /\ analysis' = r.analysis
                   /\ messages' = Append(messages,
                                     Message("assistant", r.text, <<>>, Nothing))
            /\ messageIds' = Append(messageIds, now + 1)
            /\ IF send.sessId # Nothing
               THEN /\ send' = [send EXCEPT !.pc = "saveReply"]
                    /\ isLoading' = isLoading
               ELSE /\ send' = [pc |-> "idle", sessId |-> Nothing]
                    /\ isLoading' = FALSE
    /\ UNCHANGED <<studentId, sessionId, sends, isQuizMode, walkVars, endVars, call,
                   approvalVars, viewVars, backend>>

\* Lines 296-312: the invoke resolves; getAIResponse merges the analysis and
\* the reply is appended.  Without a session id, setIsLoading(false) follows
\* at once; with one, after the insert of the reply.
AiResolved(outcome) ==
    /\ send.pc = "ai"
    /\ LET r == getAIResponse(analysis, outcome)
       IN  /\ analysis' = r.analysis
           /\ messages' = Append(messages, Message("assistant", r.text, <<>>, Nothing))
    /\ messageIds' = Append(messageIds, now + 1)
    /\ lastTurn' = Some([before |-> analysis, reported |-> outcome.sessionAnalysis,
                         failed |-> outcome.error])
    /\ IF send.sessId # Nothing
       THEN /\ send' = [send EXCEPT !.pc = "saveReply"]
            /\ isLoading' = isLoading
       ELSE /\ send' = [pc |-> "idle", sessId |-> Nothing]
            /\ isLoading' = FALSE
    /\ UNCHANGED <<studentId, sessionId, sends, isQuizMode, walkVars, endVars, call, approvalVars, viewVars, backend>>

\* Lines 308-312: the insert of the reply resolves, the row stored or not.
ReplySaved(inserted) ==
    /\ send.pc = "saveReply"
    /\ send' = [pc |-> "idle", sessId |-> Nothing]
    /\ isLoading' = FALSE
    /\ backend' = IF inserted
                  THEN Append(backend, MessageRow(send.sessId, "assistant", sends))
                  ELSE backend
    /\ UNCHANGED <<messages, studentId, sessionId, sends, analysis, lastTurn,
                   isQuizMode, walkVars, endVars, call, approvalVars, viewVars, messageIds>>

(***************************************************************************)
(* End Study and quiz generation: handleEndStudyClick, lines 336-379, and  *)
(* finishStudySession, lines 461-469.                                      *)
(***************************************************************************)
Question(type, hasOptions, options, correct) ==
    [type |-> type, hasOptions |-> hasOptions, options |-> options,
     correct_answer |-> correct]

\* All sequences over S of length lo..hi.
Seqs(S, lo, hi) == UNION {[1..k -> S] : k \in lo..hi}

\* The questions the generate-quiz function may return.
QuizPool ==
    { Question("mcq", TRUE, <<<<"a">>, <<"B">>>>, <<"b">>),
      Question("mcq", FALSE, <<>>, <<"a">>),
      Question("true_false", FALSE, <<>>, <<"T", "r", "u", "e">>),
      Question("fill_blank", FALSE, <<>>, <<"a">>),
      Question("short_answer", TRUE, <<<<"a">>>>, <<"b">>) }

QuizLists == Seqs(QuizPool, 1, MaxQuestions)

\* The outcome of the invoke of line 340: an error, or data with a success
\* flag and a list of questions.
GenOutcomes ==
    [error : {TRUE}, success : {FALSE}, questions : {<<>>}]
    \cup [error : {FALSE}, success : {FALSE},
          questions : {<<>>, <<Question("fill_blank", FALSE, <<>>, <<"a">>)>>}]
    \cup [error : {FALSE}, success : {TRUE}, questions : {<<>>} \cup QuizLists]

\* The summary onEndStudy receives; quizResult is an optional field.
Summary(msgs, an, quizResult) ==
    [messages |-> msgs, analysis |-> an, quizResult |-> quizResult]

\* A variant of line 350 without the test of the length.
EntersQuizOnSuccess(outcome) ==
    ~outcome.error /\ outcome.success

\* Lines 348-350: the quiz is entered.
EntersQuiz(outcome) ==
    ~outcome.error /\ outcome.success /\ Len(outcome.questions) > 0

\* Lines 533-543: the End Study button is rendered outside quiz mode and is
\* disabled while a quiz is being generated.
CanEndStudy == ~isQuizMode /\ ~quizLoading

\* Lines 336-346: the click.  The closure of this render holds messages and
\* analysis as they are now; finishStudySession will read them from it.
handleEndStudyClick ==
    /\ CanEndStudy
    /\ Len(endStudyCalls) < MaxEndStudy
    /\ quizLoading' = TRUE
    /\ endClick' = Some([messages |-> messages, analysis |-> analysis])
    /\ UNCHANGED <<messages, analysis, lastTurn, sendVars, isQuizMode, walkVars,
                   endTimer, endStudyCalls, lastGen, call, approvalVars, viewVars,
                   messageIds, backend>>

\* A variant of line 363 that appends the intro to the messages its closure
\* holds: setMessages([...messages, quizIntro]).
QuizGeneratedStale(outcome) ==
    /\ endClick # Nothing
    /\ lastGen' = Some(outcome)
    /\ quizLoading' = FALSE
    /\ endClick' = Nothing
    /\ IF EntersQuiz(outcome)
       THEN /\ quizQuestions' = outcome.questions
            /\ isQuizMode' = TRUE
            /\ currentQuestionIndex' = 0
            /\ userAnswers' = <<>>
            /\ answerLog' = <<>>
            /\ messages' = Append(endClick[1].messages, QuizIntro(outcome.questions))
            /\ messageIds' = Append(SubSeq(messageIds, 1, Len(endClick[1].messages)), now)
            /\ UNCHANGED endStudyCalls
       ELSE /\ endStudyCalls' = Append(endStudyCalls,
                    Summary(endClick[1].messages, endClick[1].analysis, Nothing))
            /\ UNCHANGED <<quizQuestions, isQuizMode, currentQuestionIndex,
                           userAnswers, answerLog, messages, messageIds>>
    /\ UNCHANGED <<analysis, lastTurn, sendVars, showResult, selectedOption,
                   showExplanation, endTimer, call, approvalVars, viewVars, backend>>

\* Lines 348-378: the invoke resolves.
QuizGenerated(outcome) ==
    /\ endClick # Nothing
    /\ lastGen' = Some(outcome)
    /\ quizLoading' = FALSE
    /\ endClick' = Nothing
    /\ IF EntersQuiz(outcome)
       THEN /\ quizQuestions' = outcome.questions
            /\ isQuizMode' = TRUE
            /\ currentQuestionIndex' = 0
            /\ userAnswers' = <<>>
            /\ answerLog' = <<>>
            /\ messages' = Append(messages, QuizIntro(outcome.questions))
            /\ messageIds' = Append(messageIds, now)
            /\ UNCHANGED endStudyCalls
       ELSE /\ endStudyCalls' = Append(endStudyCalls,
                    Summary(endClick[1].messages, endClick[1].analysis, Nothing))
            /\ UNCHANGED <<quizQuestions, isQuizMode, currentQuestionIndex,
                           userAnswers, answerLog, messages, messageIds>>
    /\ UNCHANGED <<analysis, lastTurn, sendVars, showResult, selectedOption,
                   showExplanation, endTimer, call, approvalVars, viewVars, backend>>

(***************************************************************************)
(* The quiz walk: the question UI of lines 682-793, handleQuizAnswer and   *)
(* handleNextQuestion, lines 381-399, calculateQuizResults, lines 401-447. *)
(***************************************************************************)
\* Line 682: the question UI is rendered.
QuizVisible ==
    isQuizMode /\ currentQuestionIndex < Len(quizQuestions) /\ ~showResult

\* Line 488.
currentQuestion == quizQuestions[currentQuestionIndex + 1]

TrueFalseOptions == {<<"T", "r", "u", "e">>, <<"F", "a", "l", "s", "e">>}
TypedTexts == {<<>>, <<"A", " ">>, <<"b">>}

IsTyped(q) == q.type \in {"fill_blank", "short_answer"}

\* A variant of lines 705-706 and 740-741 whose buttons stay enabled after
\* the answer.
ClickableAnswersAlways ==
    IF ~QuizVisible THEN {}
    ELSE IF currentQuestion.type = "mcq" /\ currentQuestion.hasOptions
         THEN Range(currentQuestion.options)
    ELSE IF currentQuestion.type = "true_false" THEN TrueFalseOptions
    ELSE {}

\* Lines 695-759: the option buttons that are rendered and enabled, as the
\* set of answers a click can submit.
ClickableAnswers ==
    IF ~QuizVisible \/ showExplanation THEN {}
    ELSE IF currentQuestion.type = "mcq" /\ currentQuestion.hasOptions
         THEN Range(currentQuestion.options)
    ELSE IF currentQuestion.type = "true_false" THEN TrueFalseOptions
    ELSE {}

\* Line 761: the text input is rendered.
CanType == QuizVisible /\ IsTyped(currentQuestion) /\ ~showExplanation

\* A variant of line 385 that puts the new answer first.
handleQuizAnswerFirst(answer) ==
    /\ selectedOption' = Some(answer)
    /\ showExplanation' = TRUE
    /\ userAnswers' = <<answer>> \o userAnswers
    /\ answerLog' = Append(answerLog, [index |-> currentQuestionIndex, answer |-> answer])
    /\ UNCHANGED <<messages, analysis, lastTurn, sendVars, isQuizMode, quizQuestions,
                   currentQuestionIndex, showResult, endVars, call, approvalVars, viewVars,
                   messageIds, backend>>

\* handleQuizAnswer, lines 381-387.
handleQuizAnswer(answer) ==
    /\ selectedOption' = Some(answer)
    /\ showExplanation' = TRUE
    /\ userAnswers' = Append(userAnswers, answer)
    /\ answerLog' = Append(answerLog, [index |-> currentQuestionIndex, answer |-> answer])
    /\ UNCHANGED <<messages, analysis, lastTurn, sendVars, isQuizMode, quizQuestions,
                   currentQuestionIndex, showResult, endVars, call, approvalVars, viewVars,
                   messageIds, backend>>

\* Lines 705 and 740: a click on an option button.
ClickOption(option) ==
    /\ option \in ClickableAnswers
    /\ handleQuizAnswer(option)

\* Line 766: the onChange of the text input.
TypeAnswer(text) ==
    /\ CanType
    /\ selectedOption' = Some(text)
    /\ UNCHANGED <<messages, analysis, lastTurn, sendVars, isQuizMode, quizQuestions,
                   currentQuestionIndex, userAnswers, showResult, showExplanation,
                   answerLog, endVars, call, approvalVars, viewVars,
                   messageIds, backend>>

\* Lines 767-775: Enter or the Submit button, with a non-empty typed text.
SubmitTyped ==
    /\ CanType
    /\ Truthy(selectedOption)
    /\ handleQuizAnswer(selectedOption[1])

\* A variant of line 393 that is off by one.
HasNextQuestionOffByOne == currentQuestionIndex < Len(quizQuestions)

\* Line 393.
HasNextQuestion == currentQuestionIndex < Len(quizQuestions) - 1

\* handleNextQuestion, lines 389-399, behind the button of lines 779-789;
\* on the last question calculateQuizResults appends the result message and
\* starts the timer whose callback holds this render's messages, analysis,
\* questions and answers.
handleNextQuestion ==
    /\ QuizVisible
    /\ showExplanation
    /\ selectedOption' = Nothing
    /\ showExplanation' = FALSE
    /\ IF HasNextQuestion
       THEN /\ currentQuestionIndex' = currentQuestionIndex + 1
            /\ UNCHANGED <<showResult, messages, messageIds, endTimer>>
       ELSE /\ showResult' = TRUE
            /\ messages' = Append(messages, ResultMessage(quizQuestions, userAnswers))
            /\ messageIds' = Append(messageIds, now)
            /\ endTimer' = Some(Summary(messages, analysis,
                                Some(QuizResult(quizQuestions, userAnswers))))
            /\ UNCHANGED currentQuestionIndex
    /\ UNCHANGED <<analysis, lastTurn, sendVars, isQuizMode, quizQuestions,
                   userAnswers, answerLog, quizLoading, endClick, endStudyCalls,
                   lastGen, call, approvalVars, viewVars, backend>>

\* Lines 431-446: the timer fires and onEndStudy is called.
EndTimerFires ==
    /\ endTimer # Nothing
    /\ endStudyCalls' = Append(endStudyCalls, endTimer[1])
    /\ endTimer' = Nothing
    /\ UNCHANGED <<messages, analysis, lastTurn, sendVars, isQuizMode, walkVars,
                   quizLoading, endClick, lastGen, call, approvalVars, viewVars,
                   messageIds, backend>>

(***************************************************************************)
(* Specifications.  The actions are those above in each of them; what      *)
(* differs is the environment: which texts the learner types, what the     *)
(* backend functions answer, and which of the controls the learner uses.   *)
(***************************************************************************)
\* One accepted and one refused input, and one answer of study-chat: a
\* reply with a reported analysis.
FewInputs == {<<<<"h">>, Nothing>>, <<<<" ">>, Nothing>>}
FewAiOutcomes ==
    { o \in AiOutcomes :
        /\ o.response = Some(<<"reply">>)
        /\ o.sessionAnalysis # Nothing
        /\ o.sessionAnalysis[1].understanding = Some("good") }
FewGenOutcomes ==
    { o \in GenOutcomes :
        EntersQuiz(o) => \A i \in 1..Len(o.questions) :
                            o.questions[i].type \in {"true_false", "fill_blank"} }

Walk ==
    \/ \E option \in ClickableAnswers : ClickOption(option)
    \/ \E text \in TypedTexts : TypeAnswer(text)
    \/ SubmitTyped
    \/ handleNextQuestion
    \/ EndTimerFires

\* The whole component, with or without a studentId.
Next ==
    \/ \E in \in FewInputs : handleSendMessage(in[1], in[2])
    \/ \E outcome \in {"ok", "error"} : SessionInserted(outcome)
    \/ UserMessageSaved(TRUE)
    \/ \E outcome \in FewAiOutcomes : AiResolved(outcome)
    \/ ReplySaved(TRUE)
    \/ handleEndStudyClick
    \/ \E outcome \in FewGenOutcomes : QuizGenerated(outcome)
    \/ Walk

Spec == Init /\ [][Next]_vars

\* The chat alone: every input and every answer of study-chat; the learner
\* does not end the session.
NextChat ==
    \/ \E text \in InputTexts, image \in Images : handleSendMessage(text, image)
    \/ \E outcome \in {"ok", "error"} : SessionInserted(outcome)
    \/ UserMessageSaved(TRUE)
    \/ \E outcome \in AiOutcomes : AiResolved(outcome)
    \/ ReplySaved(TRUE)

SpecChat == Init /\ [][NextChat]_vars

\* The requests of a send are answered: each await of lines 289-310 ends.
Resolves ==
    \/ \E outcome \in {"ok", "error"} : SessionInserted(outcome)
    \/ UserMessageSaved(TRUE)
    \/ \E outcome \in AiOutcomes : AiResolved(outcome)
    \/ ReplySaved(TRUE)

SpecChatAnswered == SpecChat /\ WF_vars(Resolves)

\* The sends of an instance with or without a studentId, every outcome of
\* each insert, and a study-chat request that is answered or fails.
DbAiOutcomes ==
    { o \in AiOutcomes : o.error \/ (o.response = Some(<<"reply">>) /\ o.sessionAnalysis = Nothing) }

NextDb ==
    \/ \E in \in FewInputs : handleSendMessage(in[1], in[2])
    \/ \E outcome \in InsertOutcomes : SessionInserted(outcome)
    \/ \E inserted \in BOOLEAN : UserMessageSaved(inserted)
    \/ \E outcome \in DbAiOutcomes : AiResolved(outcome)
    \/ \E inserted \in BOOLEAN : ReplySaved(inserted)

SpecDb == Init /\ [][NextDb]_vars

\* The quiz: every answer of generate-quiz, for a component without a
\* studentId, whose sends never wait for the database.
InitQuiz == InitState /\ studentId = Nothing /\ call = Nothing /\ ApprovalIdle /\ ViewsIdle

NextQuiz ==
    \/ \E in \in FewInputs : handleSendMessage(in[1], in[2])
    \/ \E outcome \in FewAiOutcomes : AiResolved(outcome)
    \/ handleEndStudyClick
    \/ \E outcome \in GenOutcomes : QuizGenerated(outcome)
    \/ Walk

SpecQuiz == InitQuiz /\ [][NextQuiz]_vars

\* The learner goes on: clicks an option when there are buttons, types an
\* answer and submits it when there is an input, clicks Next when it is
\* shown; and the timer of line 431 fires.  The Next button is shown
\* exactly when handleNextQuestion is enabled (lines 779-790), so its weak
\* fairness is written out with NextShown in the place of ENABLED.
NextShown == QuizVisible /\ showExplanation

LearnerGoesOn ==
    /\ WF_vars(\E option \in ClickableAnswers : ClickOption(option))
    /\ WF_vars(\E text \in TypedTexts \ {<<>>} : TypeAnswer(text))
    /\ SF_vars(SubmitTyped)
    /\ ([]<>(~NextShown) \/ []<><<handleNextQuestion>>_vars)
    /\ WF_vars(EndTimerFires)

\* The quiz of a learner who sends nothing: End Study, every answer of
\* generate-quiz, and the walk.
NextQuizLearner ==
    \/ handleEndStudyClick
    \/ \E outcome \in GenOutcomes : QuizGenerated(outcome)
    \/ Walk

SpecQuizLearner == InitQuiz /\ [][NextQuizLearner]_vars /\ LearnerGoesOn

(***************************************************************************)
(* calculateQuizResults in isolation: the scoring of lines 401-417 applied *)
(* to a list of questions and a list of answers, whatever they are.        *)
(***************************************************************************)
componentVars ==
    <<messages, isLoading, isQuizMode, quizQuestions, currentQuestionIndex,
      userAnswers, showResult, quizLoading, selectedOption, showExplanation,
      analysis, studentId, sessionId, send, endClick, endTimer, endStudyCalls,
      sends, answerLog, lastGen, lastTurn, messageIds, backend>>

\* A call: the inputs, the result once computed, and the correctCount of
\* the previous call when its answers were derived from that call's.
Call(questions, answers) ==
    Some([questions |-> questions, answers |-> answers, result |-> Nothing,
          message |-> Nothing, previousCount |-> Nothing])

\* The call is made.
Calculate ==
    /\ call # Nothing
    /\ call[1].result = Nothing
    /\ call' = Some([call[1] EXCEPT
            !.result = Some(QuizResult(call[1].questions, call[1].answers)),
            !.message = Some(ResultMessage(call[1].questions, call[1].answers))])
    /\ UNCHANGED <<componentVars, approvalVars, viewVars>>

\* The answer at position i is replaced by one that matches the correct
\* answer of question i, for the call to be made again.
CorrectedAnswer(i, answer) ==
    /\ call # Nothing
    /\ call[1].result # Nothing
    /\ i \in 1..Len(call[1].answers)
    /\ Trim(ToLowerCase(answer)) = Trim(ToLowerCase(call[1].questions[i].correct_answer))
    /\ call' = Some([call[1] EXCEPT
            !.answers[i] = answer,
            !.result = Nothing,
            !.message = Nothing,
            !.previousCount = Some(call[1].result[1].correctCount)])
    /\ UNCHANGED <<componentVars, approvalVars, viewVars>>

\* The strings of the isolated calls: case variants, surrounding
\* whitespace, and a different letter.
ScoreStrings == {<<"a">>, <<"A">>, <<"a", " ">>, <<"b">>}

\* Every question over these strings, with and without an options array.
ScoreQuestions ==
    { Question(type, FALSE, <<>>, correct) :
        type \in QuestionTypes, correct \in ScoreStrings }
    \cup { Question(type, TRUE, options, correct) :
        type \in QuestionTypes, options \in Seqs(ScoreStrings, 0, MaxOptions),
        correct \in ScoreStrings }

\* The questions that follow the first one of a call, each with an answer.
FollowingQuestions ==
    { <<Question("mcq", TRUE, <<<<"a">>, <<"b">>>>, <<"a">>), <<"b">>>>,
      <<Question("fill_blank", FALSE, <<>>, <<"b">>), <<"B">>>> }

\* Any question with any answer, followed or not by another one; the
\* answers may stop early (userAnswers[i] is then undefined).
InitScore ==
    /\ InitState
    /\ ApprovalIdle /\ ViewsIdle
    /\ studentId = Nothing
    /\ \E q \in ScoreQuestions, a \in ScoreStrings,
          rest \in Seqs(FollowingQuestions, 0, 1) :
          \E n \in 0..(1 + Len(rest)) :
             call = Call(<<q>> \o [i \in 1..Len(rest) |-> rest[i][1]],
                         SubSeq(<<a>> \o [i \in 1..Len(rest) |-> rest[i][2]], 1, n))

NextScore ==
    \/ Calculate
    \/ \E i \in 1..2, answer \in ScoreStrings : CorrectedAnswer(i, answer)

SpecScore == InitScore /\ [][NextScore]_vars

\* Quizzes of 1..MaxTotal questions of which any number is answered correctly.
AccuracyQuestion == Question("fill_blank", FALSE, <<>>, <<"a">>)

InitAccuracy ==
    /\ InitState
    /\ ApprovalIdle /\ ViewsIdle
    /\ studentId = Nothing
    /\ \E total \in 1..MaxTotal :
          \E correct \in 0..total :
             call = Call([i \in 1..total |-> AccuracyQuestion],
                         [i \in 1..total |-> IF i <= correct THEN <<"A">> ELSE <<"b">>])

NextAccuracy == Calculate

SpecAccuracy == InitAccuracy /\ [][NextAccuracy]_vars

(***************************************************************************)
(* The handler of school-student-approval, lines 17-142.  An instance      *)
(* waits at each await: the school lookup, the student lookup, the update. *)
(***************************************************************************)
\* A request: its method, what req.json() makes of its body ("object",
\* "null", or "invalid" when it throws), and the fields of the object.  A
\* field that is absent and one that is the empty string are both falsy
\* and are both written "".
Request(method, json, action, schoolId, schoolPassword, student, rejectionReason) ==
    [method |-> method, json |-> json, action |-> action, schoolId |-> schoolId,
     schoolPassword |-> schoolPassword, studentId |-> student,
     rejectionReason |-> rejectionReason]

\* The Response: its HTTP status and the fields success, status and error
\* of its JSON body.
Response(status, success, result, error) ==
    [status |-> status, success |-> success, result |-> result, error |-> error]

Failure(status, error) == Response(status, Some(FALSE), Nothing, Some(error))

\* A variant of line 25 that forgets studentId.
MissingFieldsButStudent(request) ==
    \/ request.json = "null"
    \/ request.action = ""
    \/ request.schoolId = ""
    \/ request.schoolPassword = ""

\* Line 25.
MissingFields(request) ==
    \/ request.json = "null"
    \/ request.action = ""
    \/ request.schoolId = ""
    \/ request.schoolPassword = ""
    \/ request.studentId = ""

\* A variant of lines 48-49 without the filter on password_hash.
MatchingSchoolIds(request) ==
    { school \in Schools : school.school_id = request.schoolId }

\* Lines 45-50: the rows the two .eq filters select.
MatchingSchools(request) ==
    { school \in Schools :
        /\ school.school_id = request.schoolId
        /\ school.password_hash = request.schoolPassword }

Respond(h, response, failure) ==
    reqs' = [reqs EXCEPT ![h].pc = "done", ![h].response = Some(response),
                         ![h].failure = failure]

\* Lines 18-42: the request arrives; the instance answers at once or issues
\* the school lookup.
Receive(h, request) ==
    /\ reqs[h].pc = "idle"
    /\ LET fresh == [Idle EXCEPT !.request = Some(request)]
       IN  reqs' = [reqs EXCEPT ![h] =
              IF request.method = "OPTIONS"
              THEN [fresh EXCEPT !.pc = "done",
                      !.response = Some(Response(200, Nothing, Nothing, Nothing))]
              ELSE IF request.json = "invalid"
              THEN [fresh EXCEPT !.pc = "done",
                      !.response = Some(Failure(500, "exception"))]
              ELSE IF MissingFields(request)
              THEN [fresh EXCEPT !.pc = "done",
                      !.response = Some(Failure(400, "Missing required fields"))]
              ELSE IF ~envConfigured
              THEN [fresh EXCEPT !.pc = "done",
                      !.response = Some(Failure(500, "Backend configuration error"))]
              ELSE [fresh EXCEPT !.pc = "school"]]
    /\ UNCHANGED <<students, envConfigured, componentVars, call, viewVars>>

\* Lines 45-65: the school lookup returns.  maybeSingle gives an error when
\* more than one row matches, and the backend may fail.
SchoolLookupReturns(h, failed) ==
    /\ reqs[h].pc = "school"
    /\ LET rows == MatchingSchools(reqs[h].request[1])
       IN  IF failed \/ Cardinality(rows) > 1
           THEN Respond(h, Failure(500, "School validation failed"), Some("school"))
           ELSE IF rows = {}
           THEN Respond(h, Failure(401, "Invalid school credentials"), Nothing)
           ELSE reqs' = [reqs EXCEPT ![h].pc = "student",
                                     ![h].school = Some(CHOOSE row \in rows : TRUE)]
    /\ UNCHANGED <<students, envConfigured, componentVars, call, viewVars>>

\* A variant of line 82 without the test that a row was found.
OfOtherSchool(id, school) ==
    id \in DOMAIN students /\ students[id].school_id # school.id

\* A variant of line 82 that only tests that the student exists.
NoSuchStudent(id, school) == id \notin DOMAIN students

\* Line 82.
NotOfSchool(id, school) ==
    id \notin DOMAIN students \/ students[id].school_id # school.id

\* Lines 68-87: the student lookup returns; on success the update of lines
\* 90-97 or 115-121 is issued.
StudentLookupReturns(h, failed) ==
    /\ reqs[h].pc = "student"
    /\ LET id == reqs[h].request[1].studentId
       IN  IF failed
           THEN Respond(h, Failure(500, "Student lookup failed"), Some("student"))
           ELSE IF NotOfSchool(id, reqs[h].school[1])
           THEN Respond(h, Failure(404, "Student not found for this school"), Nothing)
           ELSE reqs' = [reqs EXCEPT ![h].pc = "update"]
    /\ UNCHANGED <<students, envConfigured, componentVars, call, viewVars>>

\* A variant of line 113 without .trim().
RejectionReasonAsSent(request) ==
    IF Truthy(request.rejectionReason) THEN request.rejectionReason[1]
    ELSE <<"No reason provided">>

\* Line 113.
NoReason == <<"No reason provided">>
RejectionReason(request) ==
    Trim(IF Truthy(request.rejectionReason) THEN request.rejectionReason[1]
         ELSE NoReason)

\* A variant of lines 117-120 whose rejection writes the reason only.
UpdatedReasonOnly(row, request) ==
    IF request.action = "approve"
    THEN [row EXCEPT !.is_approved = TRUE, !.approved_at = Some("now"),
                     !.rejection_reason = Nothing]
    ELSE [row EXCEPT !.rejection_reason =
                         Some(Trim(IF Truthy(request.rejectionReason)
                                   THEN request.rejectionReason[1]
                                   ELSE <<"No reason provided">>))]

\* The row the update of lines 92-96 or 117-120 leaves; approved_at holds
\* the time of the request, whichever it is.
Updated(row, request) ==
    IF request.action = "approve"
    THEN [row EXCEPT !.is_approved = TRUE, !.approved_at = Some("now"),
                     !.rejection_reason = Nothing]
    ELSE [row EXCEPT !.is_approved = FALSE,
                     !.rejection_reason = Some(RejectionReason(request))]

\* How an update may end: applied and reported, refused by the backend, or
\* applied with its report lost on the way back.
UpdateOutcomes == {"ok", "error", "lost"}

\* Lines 89-134: the update returns.
UpdateReturns(h, outcome) ==
    /\ reqs[h].pc = "update"
    /\ LET request  == reqs[h].request[1]
           id       == request.studentId
           approve  == request.action = "approve"
           response ==
               IF outcome # "ok"
               THEN Failure(500, IF approve THEN "Failed to approve student"
                                 ELSE "Failed to reject student")
               ELSE Response(200, Some(TRUE),
                             Some(IF approve THEN "approved" ELSE "rejected"), Nothing)
       IN  /\ students' = IF outcome = "error" \/ id \notin DOMAIN students
                          THEN students
                          ELSE [students EXCEPT ![id] = Updated(students[id], request)]
           /\ reqs' = [reqs EXCEPT ![h].pc = "done",
                                   ![h].response = Some(response),
                                   ![h].wrote = outcome # "error",
                                   ![h].failure = IF outcome = "ok" THEN Nothing
                                                  ELSE Some("update")]
    /\ UNCHANGED <<envConfigured, componentVars, call, viewVars>>

\* The requests: a preflight, a body that is not JSON, the body null, and
\* objects over every combination of action, credentials and student.  The
\* credentials are those of school A, of school B, the id of A with the
\* password of B, those shared by schools C and D, and pairs with a part
\* missing; the students are the one of A, the one of B, an unknown one and
\* none.  A rejection may carry no reason, an empty one, a blank one, or one
\* with surrounding whitespace.
Credentials ==
    { <<"sa", "pa">>, <<"sb", "pb">>, <<"sa", "pb">>, <<"sc", "pc">>,
      <<"", "pa">>, <<"sa", "">> }
Reasons == {Nothing, Some(<<>>), Some(<<" ">>), Some(<<" ", "r", " ">>)}
Requests ==
    { Request("OPTIONS", "invalid", "", "", "", "", Nothing),
      Request("POST", "invalid", "", "", "", "", Nothing),
      Request("POST", "null", "", "", "", "", Nothing) }
    \cup { Request("POST", "object", action, c[1], c[2], student, Nothing) :
            action \in {"approve", "archive", ""}, c \in Credentials,
            student \in {"s1", "s2", "s9", ""} }
    \cup { Request("POST", "object", "reject", c[1], c[2], student, reason) :
            c \in Credentials, student \in {"s1", "s2", "s9", ""},
            reason \in Reasons }

\* One request at a time, every request, with or without the environment
\* of line 32-33.
InitApproval ==
    /\ InitState
    /\ studentId = Nothing
    /\ call = Nothing
    /\ students = InitialStudents
    /\ reqs = [h \in Handlers |-> Idle]
    /\ envConfigured \in BOOLEAN
    /\ ViewsIdle

\* Line 144: serve has sent the Response; the instance is gone.
Returned(h) ==
    /\ reqs[h].pc = "done"
    /\ reqs' = [reqs EXCEPT ![h] = Idle]
    /\ UNCHANGED <<students, envConfigured, componentVars, call, viewVars>>

Serve(h) ==
    \/ \E failed \in BOOLEAN : SchoolLookupReturns(h, failed)
    \/ \E failed \in BOOLEAN : StudentLookupReturns(h, failed)
    \/ \E outcome \in UpdateOutcomes : UpdateReturns(h, outcome)
    \/ Returned(h)

NextApproval ==
    \/ \E request \in Requests : Receive("h1", request)
    \/ Serve("h1")

SpecApproval == InitApproval /\ [][NextApproval]_vars

\* Two instances at once, serving approvals and rejections of the two
\* students by their own schools, in a configured environment.
RaceRequests ==
    { Request("POST", "object", "approve", c[1], c[2], c[3], Nothing) :
        c \in {<<"sa", "pa", "s1">>, <<"sb", "pb", "s2">>} }
    \cup { Request("POST", "object", "reject", c[1], c[2], c[3], reason) :
             c \in {<<"sa", "pa", "s1">>, <<"sb", "pb", "s2">>},
             reason \in {Nothing, Some(<<" ", "r", " ">>)} }

InitApprovalRace ==
    /\ InitState
    /\ studentId = Nothing
    /\ call = Nothing
    /\ ApprovalIdle
    /\ ViewsIdle

NextApprovalRace ==
    \E h \in Handlers :
       \/ \E request \in RaceRequests : Receive(h, request)
       \/ Serve(h)

SpecApprovalRace == InitApprovalRace /\ [][NextApprovalRace]_vars

(***************************************************************************)
(* The clock: the ids of lines 271, 300, 359 and 423 are readings of it.   *)
(***************************************************************************)
\* The clock advances by a millisecond; Date.now() reads it.
Tick ==
    /\ now < FirstReading + MaxTicks
    /\ now' = now + 1
    /\ UNCHANGED <<componentVars, call, approvalVars, historyVars, messageReactions>>

\* Sends, End Study and a quiz of one question, with the clock advancing
\* between any two steps or not.
IdGenOutcomes ==
    { o \in GenOutcomes :
        \/ o.error
        \/ /\ o.success
           /\ o.questions \in { <<Question("fill_blank", FALSE, <<>>, <<"a">>)>>,
                                 <<Question("mcq", TRUE, <<<<"a">>, <<"B">>>>, <<"b">>)>> } }

NextIds ==
    \/ Tick
    \/ handleSendMessage(<<"h">>, Nothing)
    \/ \E outcome \in FewAiOutcomes : AiResolved(outcome)
    \/ handleEndStudyClick
    \/ \E outcome \in IdGenOutcomes : QuizGenerated(outcome)
    \/ Walk

SpecIds == InitQuiz /\ [][NextIds]_vars

(***************************************************************************)
(* Message reactions: handleReaction, lines 112-134, behind the buttons of *)
(* lines 634-676.                                                          *)
(***************************************************************************)
ReactionTypes == {"like", "helpful", "confusing"}

\* Lines 114-118: the reactions of a message that has none yet.
NoReaction == [t \in ReactionTypes |-> [type |-> t, count |-> 0, userReacted |-> FALSE]]

Max(a, b) == IF a >= b THEN a ELSE b

\* A variant of line 128 that keeps the count when the reaction is taken back.
ToggleKeepingCount(prev, messageId, reactionType) ==
    LET messageReacts   == IF messageId \in DOMAIN prev THEN prev[messageId]
                           ELSE NoReaction
        currentReaction == messageReacts[reactionType]
        newUserReacted  == ~currentReaction.userReacted
    IN  [id \in DOMAIN prev \cup {messageId} |->
            IF id = messageId
            THEN [messageReacts EXCEPT ![reactionType] =
                     [currentReaction EXCEPT
                         !.count = IF newUserReacted THEN @ + 1 ELSE Max(0, @),
                         !.userReacted = newUserReacted]]
            ELSE prev[id]]

\* The updater of lines 113-133.
Toggle(prev, messageId, reactionType) ==
    LET messageReacts   == IF messageId \in DOMAIN prev THEN prev[messageId]
                           ELSE NoReaction
        currentReaction == messageReacts[reactionType]
        newUserReacted  == ~currentReaction.userReacted
    IN  [id \in DOMAIN prev \cup {messageId} |->
            IF id = messageId
            THEN [messageReacts EXCEPT ![reactionType] =
                     [currentReaction EXCEPT
                         !.count = IF newUserReacted THEN @ + 1 ELSE Max(0, @ - 1),
                         !.userReacted = newUserReacted]]
            ELSE prev[id]]

\* Line 634: the reaction buttons are rendered under assistant messages.
ReactableIds ==
    {messageIds[i] : i \in {j \in 1..Len(messages) : messages[j].role = "assistant"}}

handleReaction(messageId, reactionType) ==
    /\ messageId \in ReactableIds
    /\ messageReactions' = Toggle(messageReactions, messageId, reactionType)
    /\ UNCHANGED <<componentVars, call, approvalVars, historyVars, now>>

\* Sends answered with a reply, the clock advancing between them, and
\* reactions to the assistant messages there are.
NextReactions ==
    \/ (send.pc = "idle" /\ Tick)
    \/ handleSendMessage(<<"h">>, Nothing)
    \/ \E outcome \in FewAiOutcomes : AiResolved(outcome)
    \/ \E messageId \in ReactableIds, reactionType \in ReactionTypes :
          handleReaction(messageId, reactionType)

SpecReactions == InitQuiz /\ [][NextReactions]_vars

(***************************************************************************)
(* The ChatHistory view, ChatHistory.tsx lines 28-74 and 108-215.  The     *)
(* answer of each query is a step.                                         *)
(***************************************************************************)
MaxLoads == 2         \* chat_messages queries of ChatHistory outstanding at once

notHistoryVars == <<componentVars, call, approvalVars, now, messageReactions>>

\* Lines 39-55: the study_sessions query is answered, with rows or with an
\* error; sessions is set on success only.
SessionsLoaded(failed, rows) ==
    /\ loading
    /\ sessions' = IF failed THEN sessions ELSE rows
    /\ loading' = FALSE
    /\ UNCHANGED <<selectedSession, historyMessages, loadingMessages, loads,
                   notHistoryVars>>

\* Lines 142 and 203-212: the list of sessions is rendered when the sessions
\* are loaded and none is selected.
SessionListed(session) ==
    ~loading /\ selectedSession = Nothing /\ session \in sessions

\* Lines 57-65: a session of the list is clicked; loadMessages selects it
\* and sends its query.
loadMessages(session) ==
    /\ SessionListed(session)
    /\ loads[session] < MaxLoads
    /\ selectedSession' = Some(session)
    /\ loadingMessages' = TRUE
    /\ loads' = [loads EXCEPT ![session] = @ + 1]
    /\ UNCHANGED <<sessions, historyMessages, loading, notHistoryVars>>

\* Lines 112-115: the back button, rendered while a session is selected.
Back ==
    /\ selectedSession # Nothing
    /\ selectedSession' = Nothing
    /\ UNCHANGED <<sessions, historyMessages, loading, loadingMessages, loads,
                   notHistoryVars>>

\* Lines 66-73: a query of loadMessages is answered, with the rows of its
\* session or with an error; loadingMessages is cleared on both paths.
MessagesLoaded(session, failed) ==
    /\ loads[session] > 0
    /\ loads' = [loads EXCEPT ![session] = @ - 1]
    /\ historyMessages' = IF failed THEN historyMessages ELSE ChatMessages(session)
    /\ loadingMessages' = FALSE
    /\ UNCHANGED <<sessions, selectedSession, loading, notHistoryVars>>

\* Lines 145-201: the messages view shows the messages state.
MessagesDisplayed == ~loading /\ selectedSession # Nothing /\ ~loadingMessages

InitHistory ==
    /\ InitState
    /\ studentId = Some("student")
    /\ call = Nothing
    /\ ApprovalIdle
    /\ ViewsIdle

NextHistory ==
    \/ \E failed \in BOOLEAN, rows \in {{}, Sessions} : SessionsLoaded(failed, rows)
    \/ \E session \in Sessions : loadMessages(session)
    \/ Back
    \/ \E session \in Sessions, failed \in BOOLEAN : MessagesLoaded(session, failed)

SpecHistory == InitHistory /\ [][NextHistory]_vars

(***************************************************************************)
(* Properties of the quiz scoring, checked on the isolated calls.          *)
(***************************************************************************)
Scored == call # Nothing /\ call[1].result # Nothing
Result == call[1].result[1]

\* The answer equals the correct answer after lower-casing and trimming both.
StringEqual(q, answer) ==
    Trim(ToLowerCase(answer)) = Trim(ToLowerCase(q.correct_answer))

Matching(questions, answers) ==
    { i \in 1..Len(questions) :
        i <= Len(answers) /\ StringEqual(questions[i], answers[i]) }

AllAnswered == Len(call[1].answers) = Len(call[1].questions)

\* C1: the verdict of a computed result is "strong" iff its accuracy is at
\* least 70, "partial" iff it is at least 40 and below 70, and "weak" iff it
\* is below 40.
C1_VerdictThresholds ==
    Scored =>
        /\ Result.accuracy \in 0..100
        /\ Result.understanding = "strong" <=> Result.accuracy >= 70
        /\ Result.understanding = "partial"
              <=> (Result.accuracy >= 40 /\ Result.accuracy < 70)
        /\ Result.understanding = "weak" <=> Result.accuracy < 40

\* A result on the boundary: 7 of 10 is 70 percent and "strong".
C1_BoundaryReached ==
    /\ Scored
    /\ Result.totalQuestions = 10
    /\ Result.correctCount = 7
    /\ Result.accuracy = 70
    /\ Result.understanding = "strong"

\* C2: a computed result has at least one question, a correctCount between
\* 0 and the number of questions, and an accuracy in 0..100 that is
\* 100 * correctCount / totalQuestions rounded to the nearest integer, halves
\* up; 4 of 5 is 80 and "strong"; the percentage of the result message is
\* the accuracy of the result.
C2_AccuracyRoundedHalfUp ==
    Scored =>
        LET c == Result.correctCount
            t == Result.totalQuestions
            a == Result.accuracy
        IN  /\ t >= 1
            /\ c \in 0..t
            /\ a \in 0..100
            /\ 2 * a * t <= 200 * c + t
            /\ 200 * c + t < 2 * (a + 1) * t
            /\ (t = 5 /\ c = 4) => (a = 80 /\ Result.understanding = "strong")
            /\ call[1].message[1].content.nums = <<c, t, a>>

\* C3: in a call whose questions are all of a type other than mcq, with or
\* without an options array, and all answered, the questions counted are
\* those whose answer equals the correct answer after lower-casing and
\* trimming.
C3_NonMcqCountedIffEqual ==
    ( /\ Scored
      /\ AllAnswered
      /\ \A i \in 1..Len(call[1].questions) : call[1].questions[i].type # "mcq" )
    => Result.correctCount
          = Cardinality(Matching(call[1].questions, call[1].answers))

\* Every question is an mcq with options, answered with one of them.
AllChosenFromOptions ==
    /\ AllAnswered
    /\ \A i \in 1..Len(call[1].questions) :
          /\ call[1].questions[i].type = "mcq"
          /\ call[1].questions[i].hasOptions
          /\ call[1].answers[i] \in Range(call[1].questions[i].options)

\* C4: in a call whose questions are all mcq with options, each answered
\* with one of its options, the questions counted are those whose chosen
\* option equals the correct answer ignoring case and surrounding
\* whitespace.
C4_McqCountedIffChosenEqual ==
    (Scored /\ AllChosenFromOptions)
    => Result.correctCount
          = Cardinality(Matching(call[1].questions, call[1].answers))

\* Two options that differ in case only, the second chosen and counted, then
\* a question whose chosen option is not counted.
C4_CaseDuplicateChosen ==
    /\ Scored
    /\ AllChosenFromOptions
    /\ Len(call[1].questions) = 2
    /\ call[1].questions[1].options = << <<"A">>, <<"a">> >>
    /\ call[1].questions[1].correct_answer = <<"A">>
    /\ call[1].answers[1] = <<"a">>
    /\ Result.correctCount = 1

\* C9: a computed correctCount never exceeds the number of questions, and
\* after an answer is replaced by one that matches its question's correct
\* answer the correctCount is not below what it was.
C9_ScoringMonotone ==
    Scored =>
        /\ Result.correctCount <= Len(call[1].questions)
        /\ call[1].previousCount # Nothing
              => call[1].previousCount[1] <= Result.correctCount

\* A replaced answer that raised the count of a two-question call.
C9_CountRaised ==
    /\ Scored
    /\ Len(call[1].questions) = 2
    /\ call[1].previousCount # Nothing
    /\ call[1].previousCount[1] < Result.correctCount

(***************************************************************************)
(* Properties of the quiz walk.                                            *)
(***************************************************************************)
\* C5: userAnswers is never longer than quizQuestions, and in quiz mode
\* Len(userAnswers) <= currentQuestionIndex + 1 <= Len(quizQuestions).
C5_AnswersBounded ==
    /\ Len(userAnswers) <= Len(quizQuestions)
    /\ isQuizMode =>
          /\ Len(userAnswers) <= currentQuestionIndex + 1
          /\ currentQuestionIndex + 1 <= Len(quizQuestions)

\* The last of at least two questions is answered: both bounds are met.
C5_BoundsMet ==
    /\ isQuizMode
    /\ Len(quizQuestions) >= 2
    /\ Len(userAnswers) = currentQuestionIndex + 1
    /\ currentQuestionIndex + 1 = Len(quizQuestions)

\* The answer of the current question is recorded, and is the latest one.
CurrentAnswered ==
    /\ Len(userAnswers) = currentQuestionIndex + 1
    /\ answerLog # <<>>
    /\ answerLog[Len(answerLog)].index = currentQuestionIndex

\* C6: the quiz starts at index 0; the index only ever increases by exactly
\* one; the walk advances or completes only once the answer of the current
\* question is recorded; an answer is recorded only for a question that has
\* none yet, and the answers already recorded are kept as they are.
C6_OneQuestionAtATime ==
    /\ currentQuestionIndex = 0
    /\ [][ /\ (isQuizMode' /\ ~isQuizMode) => currentQuestionIndex' = 0
           /\ (isQuizMode /\ currentQuestionIndex' # currentQuestionIndex)
                 => currentQuestionIndex' = currentQuestionIndex + 1
           /\ (isQuizMode /\ (currentQuestionIndex' # currentQuestionIndex
                              \/ (showResult' /\ ~showResult)))
                 => CurrentAnswered
           /\ (isQuizMode /\ userAnswers' # userAnswers)
                 => /\ Len(userAnswers) = currentQuestionIndex
                    /\ Len(userAnswers') = Len(userAnswers) + 1
                    /\ SubSeq(userAnswers', 1, Len(userAnswers)) = userAnswers
                    /\ \A k \in 1..Len(answerLog) :
                          answerLog[k].index # currentQuestionIndex
         ]_vars

\* A quiz of two questions walked to its result.
C6_TwoQuestionsWalked ==
    /\ showResult
    /\ currentQuestionIndex = 1
    /\ Len(answerLog) = 2

\* The summaries that carry a quizResult: those onEndStudy has received and
\* the one the timer holds.
WithQuizResult ==
    { endStudyCalls[k].quizResult[1] :
        k \in { j \in 1..Len(endStudyCalls) : endStudyCalls[j].quizResult # Nothing } }
    \cup (IF endTimer # Nothing /\ endTimer[1].quizResult # Nothing
          THEN {endTimer[1].quizResult[1]} ELSE {})

\* C7: when the quiz completes userAnswers has one entry per question, entry
\* i being the answer submitted while question i was current, and the
\* quizResult handed to onEndStudy carries these questions and answers.
C7_AnswersAligned ==
    /\ showResult =>
          /\ Len(userAnswers) = Len(quizQuestions)
          /\ answerLog = [i \in 1..Len(quizQuestions) |->
                            [index |-> i - 1, answer |-> userAnswers[i]]]
    /\ \A r \in WithQuizResult :
          /\ showResult
          /\ r.questions = quizQuestions
          /\ r.answers = userAnswers
          /\ r.totalQuestions = Len(quizQuestions)

\* onEndStudy has received the result of two questions answered differently.
C7_ResultDelivered ==
    \E k \in 1..Len(endStudyCalls) :
        /\ endStudyCalls[k].quizResult # Nothing
        /\ Len(endStudyCalls[k].quizResult[1].answers) = 2
        /\ endStudyCalls[k].quizResult[1].answers[1]
              # endStudyCalls[k].quizResult[1].answers[2]

\* The latest generation gave an error, no success, or an empty list.
GenerationFailed ==
    /\ lastGen # Nothing
    /\ \/ lastGen[1].error
       \/ ~lastGen[1].success
       \/ lastGen[1].questions = <<>>

\* C8: after a generation that gave an error, no success or an empty list,
\* quiz mode is not entered and onEndStudy has been called with a summary
\* without quizResult; quiz mode is entered only with the non-empty list of
\* a successful generation; a quizResult exists only once quiz mode was
\* entered and every question was walked.
C8_QuizOnlyWithQuestions ==
    /\ GenerationFailed =>
          /\ ~isQuizMode
          /\ endStudyCalls # <<>>
          /\ endStudyCalls[Len(endStudyCalls)].quizResult = Nothing
    /\ isQuizMode =>
          /\ lastGen # Nothing
          /\ ~lastGen[1].error
          /\ lastGen[1].success
          /\ quizQuestions = lastGen[1].questions
          /\ Len(quizQuestions) > 0
    /\ ~isQuizMode => WithQuizResult = {}
    /\ WithQuizResult # {} =>
          /\ isQuizMode
          /\ Len(quizQuestions) > 0
          /\ currentQuestionIndex = Len(quizQuestions) - 1
          /\ { answerLog[k].index : k \in 1..Len(answerLog) }
                = 0..(Len(quizQuestions) - 1)

\* A successful generation with an empty list ended the session directly.
C8_EmptyQuizEndsSession ==
    /\ lastGen # Nothing
    /\ ~lastGen[1].error
    /\ lastGen[1].success
    /\ lastGen[1].questions = <<>>
    /\ ~isQuizMode
    /\ Len(endStudyCalls) = 1

(***************************************************************************)
(* Properties of the session-analysis accumulator.                         *)
(***************************************************************************)
NoDuplicates(arr) == Cardinality(Range(arr)) = Len(arr)

ReportedSet(opt) == IF opt = Nothing THEN {} ELSE Range(opt[1])

\* C10: the sets weakAreas, strongAreas and topicsCovered never shrink; after
\* a turn that reports a sessionAnalysis each is the union of what it was
\* and what was reported, a missing list counting as empty; none of them
\* holds an element twice.
C10_AnalysisSetsAccumulate ==
    /\ [] ( /\ NoDuplicates(analysis.weakAreas)
            /\ NoDuplicates(analysis.strongAreas)
            /\ NoDuplicates(analysis.topicsCovered)
            /\ (lastTurn # Nothing /\ lastTurn[1].reported # Nothing) =>
                  LET before == lastTurn[1].before
                      sa     == lastTurn[1].reported[1]
                  IN  /\ Range(analysis.weakAreas)
                            = Range(before.weakAreas) \cup ReportedSet(sa.weakAreas)
                      /\ Range(analysis.strongAreas)
                            = Range(before.strongAreas) \cup ReportedSet(sa.strongAreas)
                      /\ Range(analysis.topicsCovered)
                            = Range(before.topicsCovered) \cup ReportedSet(sa.topics) )
    /\ [][ /\ Range(analysis.weakAreas) \subseteq Range(analysis'.weakAreas)
           /\ Range(analysis.strongAreas) \subseteq Range(analysis'.strongAreas)
           /\ Range(analysis.topicsCovered) \subseteq Range(analysis'.topicsCovered)
         ]_vars

\* A turn reported an area the analysis already held, and one it did not.
C10_OverlappingReport ==
    /\ lastTurn # Nothing
    /\ lastTurn[1].reported # Nothing
    /\ lastTurn[1].before.weakAreas # <<>>
    /\ lastTurn[1].reported[1].weakAreas # Nothing
    /\ Range(lastTurn[1].before.weakAreas)
          \cap Range(lastTurn[1].reported[1].weakAreas[1]) # {}
    /\ Len(analysis.weakAreas) > Len(lastTurn[1].before.weakAreas)

\* The understanding a turn reported, if any: the field of its
\* sessionAnalysis.
ReportedUnderstanding ==
    IF lastTurn # Nothing /\ lastTurn[1].reported # Nothing
    THEN lastTurn[1].reported[1].understanding
    ELSE Nothing

\* C11, as amended: before any turn currentUnderstanding is "average"; after
\* a turn it is the understanding reported in that turn when that is a
\* non-empty string, and otherwise (none reported, an empty one reported, no
\* sessionAnalysis, a failed request) what it was before the turn.
C11_UnderstandingLatestNonEmpty ==
    IF lastTurn = Nothing
    THEN analysis.currentUnderstanding = "average"
    ELSE analysis.currentUnderstanding =
            IF ReportedUnderstanding # Nothing /\ ReportedUnderstanding[1] # ""
            THEN ReportedUnderstanding[1]
            ELSE lastTurn[1].before.currentUnderstanding

\* C11, as stated: after a turn currentUnderstanding is the understanding
\* reported in that turn if one is present, and otherwise what it was.
C11_UnderstandingLatestPresent ==
    IF lastTurn = Nothing
    THEN analysis.currentUnderstanding = "average"
    ELSE analysis.currentUnderstanding =
            IF ReportedUnderstanding # Nothing
            THEN ReportedUnderstanding[1]
            ELSE lastTurn[1].before.currentUnderstanding

\* A turn reported an empty understanding after one had reported "good".
C11_EmptyUnderstandingReported ==
    /\ lastTurn # Nothing
    /\ ReportedUnderstanding = Some("")
    /\ lastTurn[1].before.currentUnderstanding = "good"
    /\ analysis.currentUnderstanding = "good"

\* C12: currentUnderstanding is always one of weak, average, good,
\* excellent, whatever understanding the assistant reports.
C12_UnderstandingInDeclaredType ==
    analysis.currentUnderstanding \in {"weak", "average", "good", "excellent"}

(***************************************************************************)
(* Properties of the approval handler.                                     *)
(***************************************************************************)
\* The stored schools with these credentials.
SchoolsWith(schoolId, password) ==
    { school \in Schools :
        school.school_id = schoolId /\ school.password_hash = password }

\* The body has no action, schoolId, schoolPassword or studentId.
LacksField(request) ==
    \/ request.json = "null"
    \/ "" \in {request.action, request.schoolId, request.schoolPassword,
               request.studentId}

\* The request's credentials match exactly one stored school and its
\* studentId names a student of that school.
Authorized(request) ==
    /\ Cardinality(SchoolsWith(request.schoolId, request.schoolPassword)) = 1
    /\ request.studentId \in DOMAIN students
    /\ \A school \in SchoolsWith(request.schoolId, request.schoolPassword) :
          students[request.studentId].school_id = school.id

Serving(h) == reqs[h].request # Nothing
Served(h) == reqs[h].pc = "done" /\ reqs[h].request[1].method # "OPTIONS"

\* The request is an object with all four required fields.
Complete(request) ==
    request.method # "OPTIONS" /\ request.json = "object" /\ ~LacksField(request)

\* C13: an instance whose update was applied serves a request whose
\* credentials match exactly one stored school and whose student exists and
\* belongs to that school; and the table students changes only in the step
\* in which such an instance's update is applied, and only in the row of
\* that request's student.
C13_OnlyOwnSchoolModifies ==
    /\ [] (\A h \in Handlers : reqs[h].wrote => Authorized(reqs[h].request[1]))
    /\ [][ students' # students =>
             \E h \in Handlers :
                /\ reqs[h].pc = "update"
                /\ reqs'[h].wrote
                /\ Authorized(reqs[h].request[1])
                /\ \A s \in DOMAIN students :
                      s # reqs[h].request[1].studentId => students'[s] = students[s]
         ]_vars

\* School B approved its own student; the student of school A is as before.
C13_OwnStudentApproved ==
    /\ reqs["h1"].wrote
    /\ reqs["h1"].request[1].schoolId = "sb"
    /\ reqs["h1"].request[1].studentId = "s2"
    /\ students["s2"].is_approved
    /\ students["s1"] = InitialStudents["s1"]

\* The request the instance serves in this step: the one it holds, or the
\* one it receives.
Current(h) == IF Serving(h) THEN reqs[h].request[1] ELSE reqs'[h].request[1]

\* A step of instance h.
StepOf(h) == reqs'[h] # reqs[h] /\ (Serving(h) \/ reqs'[h].request # Nothing)

\* The backend did what it was asked: the environment is configured and no
\* lookup or update gave an error.
BackendSound(h) == envConfigured /\ reqs[h].failure = Nothing

NoSchool(request) == Complete(request) /\ SchoolsWith(request.schoolId, request.schoolPassword) = {}

\* C14: a request with all required fields whose credentials match no
\* stored school is answered 401 with success = false, whatever its student
\* and action (500 with success = false if the environment is not
\* configured or the school lookup gives an error); its update is never
\* applied and no step of its instance changes a student row.
C14_WrongCredentialsRefused ==
    /\ [] (\A h \in Handlers :
             (Served(h) /\ NoSchool(reqs[h].request[1])) =>
                /\ ~reqs[h].wrote
                /\ reqs[h].response[1].success = Some(FALSE)
                /\ reqs[h].response[1].status = IF BackendSound(h) THEN 401 ELSE 500)
    /\ [][ \A h \in Handlers :
             (StepOf(h) /\ NoSchool(Current(h))) => students' = students ]_vars

\* The id of school A with the password of school B, to approve A's student.
C14_WrongPasswordAnswered ==
    /\ Served("h1")
    /\ reqs["h1"].request[1].action = "approve"
    /\ reqs["h1"].request[1].schoolId = "sa"
    /\ reqs["h1"].request[1].schoolPassword = "pb"
    /\ reqs["h1"].request[1].studentId = "s1"
    /\ reqs["h1"].response[1].status = 401

\* The credentials match exactly one school, and the student is unknown or
\* belongs to another school.
NotLinked(request) ==
    /\ Complete(request)
    /\ Cardinality(SchoolsWith(request.schoolId, request.schoolPassword)) = 1
    /\ ~Authorized(request)

\* C15: a request with the credentials of one school whose studentId names
\* no student, or a student of another school, is answered 404 with
\* success = false (500 with success = false if the environment is not
\* configured or a lookup gives an error); its update is never applied and
\* no step of its instance changes a student row.
C15_UnlinkedStudentNotFound ==
    /\ [] (\A h \in Handlers :
             (Served(h) /\ NotLinked(reqs[h].request[1])) =>
                /\ ~reqs[h].wrote
                /\ reqs[h].response[1].success = Some(FALSE)
                /\ reqs[h].response[1].status = IF BackendSound(h) THEN 404 ELSE 500)
    /\ [][ \A h \in Handlers :
             (StepOf(h) /\ NotLinked(Current(h))) => students' = students ]_vars

\* School B asked to reject the student of school A; an unknown student
\* would do as well.
C15_OtherSchoolsStudentAnswered ==
    /\ Served("h1")
    /\ reqs["h1"].request[1].action = "reject"
    /\ reqs["h1"].request[1].schoolId = "sb"
    /\ reqs["h1"].request[1].schoolPassword = "pb"
    /\ reqs["h1"].request[1].studentId = "s1"
    /\ reqs["h1"].response[1].status = 404

Succeeded(h) == Served(h) /\ reqs[h].response[1].success = Some(TRUE)

\* What a successful approve or reject leaves, the reason of a rejection
\* being given.
Postcondition(h, reason) ==
    LET request == reqs[h].request[1]
        row     == students[request.studentId]
    IN  /\ request.action = "approve" =>
              /\ row.is_approved
              /\ row.rejection_reason = Nothing
              /\ reqs[h].response[1].result = Some("approved")
        /\ request.action = "reject" =>
              /\ ~row.is_approved
              /\ row.rejection_reason = Some(reason)
              /\ reqs[h].response[1].result = Some("rejected")

\* The step that makes a success changes no row but the request's student's.
OthersUntouched ==
    \A h \in Handlers :
       (reqs[h].pc = "update" /\ reqs'[h].pc = "done"
           /\ reqs'[h].response[1].success = Some(TRUE))
       => \A s \in DOMAIN students :
             s # reqs[h].request[1].studentId => students'[s] = students[s]

\* C16, as amended: after a request answered with success = true, an
\* approved student has is_approved = true and rejection_reason = null and
\* the response says "approved"; a rejected student has is_approved = false
\* and rejection_reason the supplied reason trimmed, or "No reason provided"
\* when no reason or an empty one was supplied, and the response says
\* "rejected"; no other student row is changed.
C16_SuccessPostcondition ==
    /\ [] (\A h \in Handlers :
             Succeeded(h) =>
                Postcondition(h,
                    IF reqs[h].request[1].rejectionReason \in {Nothing, Some(<<>>)}
                    THEN <<"No reason provided">>
                    ELSE Trim(reqs[h].request[1].rejectionReason[1])))
    /\ [][OthersUntouched]_vars

\* C16, as stated: the rejection_reason is the supplied reason trimmed, or
\* "No reason provided" when none was supplied.
C16_SuccessPostconditionAsStated ==
    /\ [] (\A h \in Handlers :
             Succeeded(h) =>
                Postcondition(h,
                    IF reqs[h].request[1].rejectionReason = Nothing
                    THEN <<"No reason provided">>
                    ELSE Trim(reqs[h].request[1].rejectionReason[1])))
    /\ [][OthersUntouched]_vars

\* A rejection with a reason in whitespace succeeded; the reason is stored
\* trimmed.
C16_RejectedWithTrimmedReason ==
    /\ Succeeded("h1")
    /\ reqs["h1"].request[1].action = "reject"
    /\ reqs["h1"].request[1].rejectionReason = Some(<<" ", "r", " ">>)
    /\ students[reqs["h1"].request[1].studentId].rejection_reason = Some(<<"r">>)

\* C17: every response to a request other than OPTIONS has a status among
\* 200, 400, 401, 404, 500 and success = true exactly when the status is
\* 200; a request whose body parses and lacks one of action, schoolId,
\* schoolPassword, studentId is answered 400 in the step it arrives, before
\* any lookup or update; a backend error of a lookup or an update, or an
\* exception, gives 500 with success = false.
C17_StatusCodes ==
    /\ [] (\A h \in Handlers :
             Served(h) =>
                LET request  == reqs[h].request[1]
                    response == reqs[h].response[1]
                IN  /\ response.status \in {200, 400, 401, 404, 500}
                    /\ response.success \in {Some(TRUE), Some(FALSE)}
                    /\ response.success = Some(TRUE) <=> response.status = 200
                    /\ (request.json # "invalid" /\ LacksField(request)) =>
                          /\ response.status = 400
                          /\ reqs[h].school = Nothing
                          /\ reqs[h].failure = Nothing
                          /\ ~reqs[h].wrote
                    /\ (request.json = "invalid" \/ reqs[h].failure # Nothing) =>
                          /\ response.status = 500
                          /\ response.success = Some(FALSE))
    /\ [][ \A h \in Handlers :
             ( /\ ~Serving(h)
               /\ reqs'[h].request # Nothing
               /\ reqs'[h].request[1].method # "OPTIONS"
               /\ reqs'[h].request[1].json # "invalid"
               /\ LacksField(reqs'[h].request[1]) )
             => reqs'[h].pc = "done" /\ students' = students ]_vars

\* A request with the credentials of school A and no studentId got 400.
C17_MissingStudentAnswered ==
    /\ Served("h1")
    /\ reqs["h1"].request[1].action = "approve"
    /\ reqs["h1"].request[1].schoolId = "sa"
    /\ reqs["h1"].request[1].schoolPassword = "pa"
    /\ reqs["h1"].request[1].studentId = ""
    /\ reqs["h1"].response[1].status = 400

(***************************************************************************)
(* Properties of the send pipeline.                                        *)
(***************************************************************************)
\* The AI request of the send in flight ends in this step.
AiRequestEnds == send.pc = "ai" /\ send'.pc # "ai"

\* C18: when the AI request of a send fails, that step appends exactly one
\* assistant message, with the fallback text of the catch, at the end of a
\* list that holds the user's message, and leaves the analysis as it was;
\* a send that is over has left isLoading false, which happens for every
\* send, and then a further send is enabled.
C18_AiFailureNotFatal ==
    /\ [][ (AiRequestEnds /\ lastTurn'[1].failed) =>
             /\ messages' = Append(messages,
                               Message("assistant", <<"oops">>, <<>>, Nothing))
             /\ messages[Len(messages)].role = "user"
             /\ analysis' = analysis
         ]_vars
    /\ [] (send.pc = "idle" => ~isLoading)
    /\ [] ((~isLoading /\ sends < MaxSends) =>
             ENABLED handleSendMessage(<<"h">>, Nothing))
    /\ (isLoading ~> ~isLoading)

\* A send failed, with a session id, and is over; the analysis a former
\* turn had built is as it was.
C18_FailedSendOver ==
    /\ lastTurn # Nothing
    /\ lastTurn[1].failed
    /\ lastTurn[1].before.weakAreas # <<>>
    /\ analysis = lastTurn[1].before
    /\ sessionId # Nothing
    /\ send.pc = "idle"
    /\ ~isLoading
    /\ messages[Len(messages)].content.text = <<"oops">>

\* C19: every step leaves the messages there are in place and as they are:
\* the list after the step is the list before it, or that list with
\* messages appended at its end.
C19_MessagesAppendOnly ==
    [][ /\ Len(messages') >= Len(messages)
        /\ SubSeq(messages', 1, Len(messages)) = messages ]_vars

\* A reply arrived after the quiz intro, and the quiz result after both.
C19_Interleaved ==
    /\ showResult
    /\ messages[Len(messages)].content.text
          \in { <<"result", verdict>> : verdict \in {"strong", "partial", "weak"} }
    /\ \E i, j \in 1..Len(messages) :
          /\ i < j
          /\ messages[i].content.text = <<"quizIntro">>
          /\ messages[j].content.text = <<"reply">>

\* The current question has a control that accepts an answer.
Answerable == ClickableAnswers # {} \/ CanType

\* C20: once quiz mode is entered with a non-empty list of questions, every
\* question not yet answered eventually is the current one and answerable,
\* and onEndStudy is eventually called with a quizResult.
C20_QuizCompletes ==
    /\ \A i \in 0..(MaxQuestions - 1) :
          (isQuizMode /\ i < Len(quizQuestions) /\ Len(userAnswers) <= i)
             ~> (isQuizMode /\ currentQuestionIndex = i /\ Answerable)
    /\ (isQuizMode /\ quizQuestions # <<>>)
          ~> (\E k \in 1..Len(endStudyCalls) : endStudyCalls[k].quizResult # Nothing)

(***************************************************************************)
(* Properties of the component under interleaved sends and End Study.      *)
(***************************************************************************)
\* The texts getAIResponse returns: the reply, and the two fallbacks.
IsReply(m) ==
    m.role = "assistant" /\ m.content.text \in {<<"reply">>, <<"sorry">>, <<"oops">>}

\* A message of a chat turn: a user message or the reply to one.
IsChatTurn(m) == m.role = "user" \/ IsReply(m)

ChatTurns == SelectSeq(messages, IsChatTurn)

\* The send in flight has not appended its reply yet.
AwaitingReply == send.pc \in {"session", "saveUser", "ai"}

\* C21: isLoading is true exactly while a send is in flight, and then no
\* handleSendMessage can start; a send that starts appends exactly one user
\* message, the end of its AI request appends exactly one reply, and the
\* messages of the chat turns are user, reply, user, reply, ...: one pair for
\* each send, the last without its reply while that send awaits it.
C21_OneSendInFlight ==
    /\ [] (isLoading <=> send.pc # "idle")
    /\ [] (isLoading =>
             ~ENABLED (\E text \in InputTexts, image \in Images :
                          handleSendMessage(text, image)))
    /\ [][ sends' # sends =>
             /\ sends' = sends + 1
             /\ \E text \in InputTexts, image \in Images :
                   /\ ~(Trim(text) = <<>> /\ image = Nothing)
                   /\ messages' = Append(messages, Message("user", text, <<>>, image))
         ]_vars
    /\ [][ AiRequestEnds =>
             /\ Len(messages') = Len(messages) + 1
             /\ SubSeq(messages', 1, Len(messages)) = messages
             /\ IsReply(messages'[Len(messages')])
         ]_vars
    /\ [] /\ Len(ChatTurns) = 2 * sends - (IF AwaitingReply THEN 1 ELSE 0)
          /\ \A i \in 1..Len(ChatTurns) :
                IF i % 2 = 1 THEN ChatTurns[i].role = "user"
                ELSE IsReply(ChatTurns[i])

\* Two sends are over, quiz mode was entered, and a reply was appended
\* after the quiz intro.
C21_TwoSendsOver ==
    /\ sends >= 2
    /\ send.pc = "idle"
    /\ isQuizMode
    /\ \E i \in 1..Len(messages) :
          /\ messages[i].content.text = <<"quizIntro">>
          /\ \E j \in (i + 1)..Len(messages) : IsReply(messages[j])

(***************************************************************************)
(* Properties of the ChatHistory view.                                     *)
(***************************************************************************)
\* C22: whenever the messages view shows messages, each of them is a row of
\* the query for the selected session.
C22_DisplayedMessagesOfSelected ==
    MessagesDisplayed =>
        \A i \in 1..Len(historyMessages) :
            historyMessages[i].session_id = selectedSession[1]

(***************************************************************************)
(* Properties of the end of a session.                                     *)
(***************************************************************************)
\* onEndStudy is called in this step.
EndStudyCalled == Len(endStudyCalls') = Len(endStudyCalls) + 1

\* C23: onEndStudy is called at most once, whatever the learner clicks.
C23_EndStudyOnce == Len(endStudyCalls) <= 1

\* C24: the summary onEndStudy is called with holds the messages and the
\* analysis of the component as they are when the call is made.
C24_SummaryIsCurrentState ==
    [][ EndStudyCalled =>
          /\ endStudyCalls'[Len(endStudyCalls')].messages = messages
          /\ endStudyCalls'[Len(endStudyCalls')].analysis = analysis ]_vars

\* C25: while a send is in flight no quiz generation starts, quiz mode is
\* not entered and onEndStudy is not called; and once quiz mode is entered
\* or the session has ended, no reply is appended and the analysis stays.
C25_EndStudyNotDuringSend ==
    /\ [][ (quizLoading' /\ ~quizLoading) => ~isLoading ]_vars
    /\ [][ (isQuizMode' /\ ~isQuizMode) => ~isLoading ]_vars
    /\ [][ EndStudyCalled => ~isLoading ]_vars
    /\ [][ (isQuizMode \/ endStudyCalls # <<>>) =>
             /\ ~(Len(messages') > Len(messages) /\ IsReply(messages'[Len(messages')]))
             /\ analysis' = analysis ]_vars

(***************************************************************************)
(* Properties of the approval handler under concurrent requests.           *)
(***************************************************************************)
\* The update of instance h is applied in this step.
UpdateApplied(h) == reqs[h].pc = "update" /\ reqs'[h].wrote

\* The rejection reason a request asks for.
AskedReason(request) ==
    IF request.rejectionReason \in {Nothing, Some(<<>>)}
    THEN <<"No reason provided">>
    ELSE Trim(request.rejectionReason[1])

\* The row satisfies the postcondition of the request.
Satisfies(row, request) ==
    /\ request.action = "approve" =>
          row.is_approved /\ row.rejection_reason = Nothing
    /\ request.action = "reject" =>
          ~row.is_approved /\ row.rejection_reason = Some(AskedReason(request))

\* C26: with approve and reject requests served at once, in every reachable
\* state a row with is_approved = true has rejection_reason = null; a row
\* changes only in a step that applies the update of a request, and after
\* that step it satisfies the postcondition of that request: so each row is
\* as the update applied last to it left it.
C26_RowsConsistentUnderRace ==
    /\ [] (\A s \in DOMAIN students :
             students[s].is_approved => students[s].rejection_reason = Nothing)
    /\ [][ \A h \in Handlers :
             UpdateApplied(h) =>
                Satisfies(students'[reqs[h].request[1].studentId], reqs[h].request[1])
         ]_vars
    /\ [][ \A s \in DOMAIN students :
             students'[s] # students[s] =>
                \E h \in Handlers :
                   UpdateApplied(h) /\ reqs[h].request[1].studentId = s
         ]_vars

\* Two instances served an approval and a rejection of the same student at
\* once and both answered with success; the update of the rejection was the
\* one applied last, and the row is the rejected one.
C26_RejectionAppliedLast ==
    /\ reqs["h1"].pc = "done" /\ reqs["h2"].pc = "done"
    /\ reqs["h1"].request[1].action = "approve"
    /\ reqs["h2"].request[1].action = "reject"
    /\ reqs["h1"].request[1].studentId = "s1"
    /\ reqs["h2"].request[1].studentId = "s1"
    /\ reqs["h1"].response[1].success = Some(TRUE)
    /\ reqs["h2"].response[1].success = Some(TRUE)
    /\ students["s1"].approved_at # Nothing
    /\ ~students["s1"].is_approved
    /\ students["s1"].rejection_reason = Some(<<"r">>)

\* C27: the update of a request whose action is neither "approve" nor
\* "reject" is never applied and no step of its instance changes a row; and
\* a step that sets is_approved to false or writes a rejection_reason is a
\* step of an instance whose request has the action "reject".
C27_OnlyRejectRejects ==
    /\ [][ \A h \in Handlers :
             (StepOf(h) /\ Current(h).action \notin {"approve", "reject"}) =>
                ~reqs'[h].wrote /\ students' = students ]_vars
    /\ [][ \A s \in DOMAIN students :
             \/ students'[s].is_approved /\ students'[s].rejection_reason = Nothing
             \/ students'[s] = students[s]
             \/ \E h \in Handlers :
                   /\ UpdateApplied(h)
                   /\ reqs[h].request[1].studentId = s
                   /\ reqs[h].request[1].action = "reject" ]_vars

(***************************************************************************)
(* Properties of what the send pipeline stores.                            *)
(***************************************************************************)
Events(kind) == {i \in 1..Len(backend) : backend[i].kind = kind}

\* The study_sessions rows whose insert was answered with the row.
SessionsKnown == {i \in Events("session") : backend[i].acknowledged}

RowsOf(role, k) ==
    {i \in Events("message") : backend[i].role = role /\ backend[i].send = k}

\* At most one study_sessions row is inserted with success, and every
\* chat_messages row is inserted after it and carries its id.
OneSessionForAllRows ==
    /\ Cardinality(SessionsKnown) <= 1
    /\ \A i \in Events("message") :
          \E j \in SessionsKnown : j < i /\ backend[i].session_id = backend[j].session_id
    /\ studentId = Nothing => Events("session") \cup Events("message") = {}

\* The send of the study-chat request at position i had a session id.
WithSessionId(i) == \E j \in SessionsKnown : j < i

\* C28, as stated: for each send that has a session id, the row of the user
\* message is inserted before the study-chat request is issued, and before
\* the row of the reply is inserted.
C28_RowsInOrderAsStated ==
    /\ OneSessionForAllRows
    /\ \A i \in Events("ai") :
          WithSessionId(i) => \E j \in RowsOf("user", backend[i].send) : j < i
    /\ \A k \in 1..sends : \A i \in RowsOf("assistant", k) :
          \E j \in RowsOf("user", k) : j < i

\* C28, as amended: for each send the insert of the user message is answered
\* before the study-chat request is issued, which is before the row of the
\* reply is inserted; the row of the user message, when its insert stored
\* it, precedes both, and each send stores at most one row of each.
C28_RowsInOrder ==
    /\ [] OneSessionForAllRows
    /\ [] (\A k \in 1..sends :
             /\ Cardinality(RowsOf("user", k)) <= 1
             /\ Cardinality(RowsOf("assistant", k)) <= 1
             /\ Cardinality({i \in Events("ai") : backend[i].send = k}) <= 1
             /\ \A i \in Events("ai") : backend[i].send = k =>
                   /\ \A j \in RowsOf("user", k) : j < i
                   /\ \A j \in RowsOf("assistant", k) : i < j)
    /\ [][ (send.pc = "saveUser" /\ send'.pc # "saveUser") =>
              backend'[Len(backend')] = AiRequest(sends) ]_vars
    /\ [] (send.pc \in {"session", "saveUser"} =>
              \A i \in Events("ai") : backend[i].send # sends)

\* The insert of the user message of the first send failed and the row of
\* its reply is stored; the second send stored both of its rows.
C28_ReplyRowWithoutUserRow ==
    /\ sends = 2
    /\ send.pc = "idle"
    /\ RowsOf("user", 1) = {}
    /\ RowsOf("assistant", 1) # {}
    /\ RowsOf("user", 2) # {}
    /\ RowsOf("assistant", 2) # {}

(***************************************************************************)
(* Properties of the message ids and of the reactions stored under them.   *)
(***************************************************************************)
\* C29: the ids of the messages of the list are pairwise distinct.
C29_MessageIdsDistinct ==
    /\ Len(messageIds) = Len(messages)
    /\ \A i, j \in 1..Len(messageIds) : i # j => messageIds[i] # messageIds[j]

\* The count and the flag of a reaction type of a message, as rendered: a
\* message without an entry shows no count and no flag.
Shown(reacts, id, t) ==
    IF id \in DOMAIN reacts
    THEN [count |-> reacts[id][t].count, userReacted |-> reacts[id][t].userReacted]
    ELSE [count |-> 0, userReacted |-> FALSE]

ReactionKeys(reacts) == (DOMAIN reacts \cup ReactableIds) \X ReactionTypes

\* C30: every count is 0 or 1 and userReacted holds exactly when the count
\* is 1; toggling a reaction twice gives back its count and flag; and a call
\* of handleReaction changes the reaction it toggles and no other, of that
\* message or of another.
C30_ReactionsToggle ==
    /\ [] (\A k \in ReactionKeys(messageReactions) :
             LET r == Shown(messageReactions, k[1], k[2])
             IN  r.count \in {0, 1} /\ (r.userReacted <=> r.count = 1))
    /\ [] (\A k \in ReactableIds \X ReactionTypes :
             LET once  == Toggle(messageReactions, k[1], k[2])
                 twice == Toggle(once, k[1], k[2])
             IN  /\ Shown(once, k[1], k[2]) # Shown(messageReactions, k[1], k[2])
                 /\ Shown(twice, k[1], k[2]) = Shown(messageReactions, k[1], k[2]))
    /\ [][ messageReactions' # messageReactions =>
             \E k \in ReactionKeys(messageReactions') :
                /\ Shown(messageReactions', k[1], k[2]).userReacted
                      = ~Shown(messageReactions, k[1], k[2]).userReacted
                /\ \A o \in ReactionKeys(messageReactions') \ {k} :
                      Shown(messageReactions', o[1], o[2])
                         = Shown(messageReactions, o[1], o[2]) ]_vars

\* Two messages have reactions: one is liked and not marked confusing, the
\* other is marked helpful and not liked.
C30_TwoMessagesReacted ==
    \E a, b \in DOMAIN messageReactions :
       /\ a # b
       /\ messageReactions[a]["like"].count = 1
       /\ messageReactions[a]["like"].userReacted
       /\ messageReactions[a]["confusing"].count = 0
       /\ messageReactions[b]["helpful"].count = 1
       /\ messageReactions[b]["like"].count = 0

====
